---- MODULE Spec2Model ----
(***************************************************************************)
(* Ball/over simulation engine of the cricket management backend:          *)
(* MatchEngine.simulate_over (backend/app/engine/match_engine.py) and the  *)
(* /simulate/over endpoint that drives it (backend/app/api/v1/match.py).   *)
(*                                                                         *)
(* Python objects that are shared by reference (BatterStats, BowlerStats)  *)
(* live in two heaps; a stats dict maps a player id to a heap address, so  *)
(* that dict(...) is the shallow copy it is in the source.  A list of      *)
(* BallEvents is represented by its length: the engine appends to it and   *)
(* slices it, and never reads an event back.                               *)
(***************************************************************************)
EXTENDS Integers, Sequences, FiniteSets, TLC

VARIABLES
  batting_team,   \* per caller: the batting roster of its requests (player ids)
  target,         \* per caller: <<>> for None, <<t>> for a target of t
  innings_state,  \* per caller: the InningsState it passes in
  pc,             \* per caller: "idle", "loop" (inside simulate_over), "done"
  loc,            \* per caller: the locals of its running simulate_over call
  ret,            \* per caller: what its last request returned
  ncalls,         \* per caller: requests made so far
  passed_in,      \* per caller: the value of innings_state when the call began
  batter_heap,    \* BatterStats objects, by address
  bowler_heap,    \* BowlerStats objects, by address
  call            \* the last call of one of the engine's pure functions

vars == <<batting_team, target, innings_state, pc, loc, ret, ncalls, passed_in,
          batter_heap, bowler_heap, call>>

----------------------------------------------------------------------------
(* Program constants *)

TOTAL_OVERS == 20

BALLS_PER_OVER == 6

MAX_WICKETS == 10

(* Bounds of the model *)

\* Spec: one over; the cap on team runs and on extras in a call
MaxRuns == 14

MaxExtras == 1

\* SpecSeq: over after over; the number of calls and the same two caps
MaxCalls == 2

SeqMaxRuns == 2

SeqMaxExtras == 1

\* SpecConc: two callers at once; the same two caps
ConcMaxRuns == 1

ConcMaxExtras == 0

Callers == {1, 2}

----------------------------------------------------------------------------
(* Values *)

NoPlayer == "-"

Roster3 == <<"A", "B", "C">>

Roster11 == <<"A", "B", "C", "D", "E", "F", "G", "H", "I", "J", "K">>

BowlingTeam == {"P", "Q"}

\* the bowler ids the n-th request of a caller may name: the two bowlers of
\* the roster take alternate overs, and "Z" is not in the roster
BowlerIds(n) == {IF n % 2 = 0 THEN "P" ELSE "Q", "Z"}

Min(a, b) == IF a <= b THEN a ELSE b

Range(s) == {s[i] : i \in 1..Len(s)}

\* schemas/match.py: RunsOutcome, WicketOutcome, ExtraOutcome
RunsOutcome(r) == [type |-> "runs", runs |-> r, extra_type |-> "none"]

WicketOutcome == [type |-> "wicket", runs |-> 0, extra_type |-> "none"]

ExtraOutcome(t) == [type |-> "extra", runs |-> 1, extra_type |-> t]

NoOutcome == [type |-> "none", runs |-> 0, extra_type |-> "none"]

\* every outcome _roll_outcome/_create_outcome can return
Outcomes ==
  {RunsOutcome(r) : r \in {0, 1, 2, 3, 4, 6}}
    \cup {WicketOutcome} \cup {ExtraOutcome(t) : t \in {"wide", "noball"}}

\* schemas/player.py
BatterStats == [runs |-> 0, balls |-> 0, fours |-> 0, sixes |-> 0]

BowlerStats == [overs |-> 0, runs |-> 0, wickets |-> 0, dots |-> 0]

\* FallOfWicket.overs is over + ball/10; the model keeps it in tenths.
FallOfWicket(p, r, tenths) == [player |-> p, runs |-> r, overs |-> tenths]

OverSummary(n, b, r, w, k) ==
  [over_number |-> n, bowler |-> b, runs |-> r, wickets |-> w, balls |-> k]

EmptyDict == [k \in {} |-> 0]

InningsState(r, w, o, b, pair, fow) ==
  [batting_team |-> "T1", bowling_team |-> "T2", runs |-> r, wickets |-> w,
   overs |-> o, balls |-> b, current_batters |-> pair, current_bowler |-> "P",
   over_summaries |-> <<>>, fall_of_wickets |-> fow,
   batter_stats |-> EmptyDict, bowler_stats |-> EmptyDict, recent_balls |-> 0]

\* Python's truthiness of an Optional[int]: None and 0 are both false.
Truthy(t) == t # <<>> /\ t[1] # 0

----------------------------------------------------------------------------
(* Python dict and list helpers *)

Has(d, k) == k \in DOMAIN d

Put(d, k, v) == [x \in DOMAIN d \cup {k} |-> IF x = k THEN v ELSE d[x]]

\* the first player of the roster whose id is not in `used` (next(..., None))
NextBatter(team, used) ==
  LET free == {i \in 1..Len(team) : team[i] \notin used}
  IN IF free = {} THEN NoPlayer
     ELSE team[CHOOSE i \in free : \A j \in free : i <= j]

\* next((p for p in batting_team if p.id == striker_id), None)
FindPlayer(team, id) == IF id \in Range(team) THEN id ELSE NoPlayer

----------------------------------------------------------------------------
(* MatchEngine.simulate_over, one piece per block of the source.  A machine *)
(* state m is [f |-> the call's locals, hb |-> batter heap, hw |-> bowler   *)
(* heap].  striker_idx is 0 or 1 as in the source; tuples are 1-based.      *)

\* lines 263-281: the copy of the innings state; dict(...) keeps the addresses
CopyState(st, bowler) ==
  [batting_team |-> st.batting_team, bowling_team |-> st.bowling_team,
   runs |-> st.runs, wickets |-> st.wickets, overs |-> st.overs,
   balls |-> st.balls, current_batters |-> st.current_batters,
   current_bowler |-> bowler, over_summaries |-> st.over_summaries,
   fall_of_wickets |-> st.fall_of_wickets,
   batter_stats |-> st.batter_stats, bowler_stats |-> st.bowler_stats,
   recent_balls |-> st.recent_balls]

\* lines 258-284: the locals at the top of the loop
NewFrame(st, bowler) ==
  [over_number |-> st.overs, balls |-> 0, runs |-> 0, wickets |-> 0,
   current_batters |-> st.current_batters, striker_idx |-> 0,
   updated_state |-> CopyState(st, bowler), ball_number |-> 0,
   innings_complete |-> FALSE, bowler |-> bowler, outcome |-> NoOutcome]

NullFrame == NewFrame(InningsState(0, 0, 0, 0, <<NoPlayer, NoPlayer>>, <<>>), NoPlayer)

\* LoopCond without the count of legal deliveries
LoopCondOpen(f) == ~f.innings_complete

\* line 286: the loop condition
LoopCond(f) == f.ball_number < BALLS_PER_OVER /\ ~f.innings_complete

\* line 288
StrikerId(f) == f.current_batters[f.striker_idx + 1]

\* AfterWicket without the test that a replacement was found
AfterWicketUnchecked(f, next_batter, wkts) ==
  IF wkts < MAX_WICKETS
    THEN [f EXCEPT !.current_batters[f.striker_idx + 1] = next_batter]
    ELSE [f EXCEPT !.innings_complete = TRUE]

\* lines 343-346: a replacement takes the striker's slot, or the innings ends
AfterWicket(f, next_batter, wkts) ==
  IF next_batter # NoPlayer /\ wkts < MAX_WICKETS
    THEN [f EXCEPT !.current_batters[f.striker_idx + 1] = next_batter]
    ELSE [f EXCEPT !.innings_complete = TRUE]

\* lines 321-346
ProcessWicket(m, team, outcome) ==
  LET f == m.f
      us == f.updated_state
      fow == Append(us.fall_of_wickets,
                    FallOfWicket(StrikerId(f), us.runs + outcome.runs,
                                 10 * f.over_number + f.ball_number + 1))
      us1 == [us EXCEPT !.wickets = @ + 1, !.runs = @ + outcome.runs,
                        !.fall_of_wickets = fow]
      used_batters == Range(f.current_batters) \cup {fow[i].player : i \in 1..Len(fow)}
      f1 == [f EXCEPT !.wickets = @ + 1, !.runs = @ + outcome.runs,
                      !.updated_state = us1]
  IN [m EXCEPT !.f = AfterWicket(f1, NextBatter(team, used_batters), us1.wickets)]

\* IsLegal with wides and no-balls counted as deliveries of the over
EveryBallLegal(outcome) == outcome.type \in {"runs", "wicket", "extra"}

\* lines 348-352
IsLegal(outcome) ==
  ~(outcome.type = "extra" /\ outcome.extra_type \in {"wide", "noball"})

\* ProcessExtra adding the runs to the over's count only
ProcessExtraOverOnly(m, outcome) ==
  [m EXCEPT !.f.runs = @ + outcome.runs]

ProcessExtra(m, outcome) ==
  [m EXCEPT !.f.runs = @ + outcome.runs, !.f.updated_state.runs = @ + outcome.runs]

\* RotateStrike swapping whenever runs were scored
RotateOnAnyRuns(striker_idx, runs) ==
  IF runs > 0 THEN 1 - striker_idx ELSE striker_idx

\* lines 370-372
RotateStrike(striker_idx, runs) ==
  IF runs % 2 = 1 THEN 1 - striker_idx ELSE striker_idx

\* lines 354-372: .get(striker_id, BatterStats()) returns the object stored in
\* the dict when there is one, and the update is made in place on that object
ProcessRuns(m, outcome) ==
  LET f == m.f
      id == StrikerId(f)
      d == f.updated_state.batter_stats
      fresh == ~Has(d, id)
      hb0 == IF fresh THEN Append(m.hb, BatterStats) ELSE m.hb
      a == IF fresh THEN Len(hb0) ELSE d[id]
      hb1 == [hb0 EXCEPT ![a] =
                [@ EXCEPT !.runs = @ + outcome.runs, !.balls = @ + 1,
                          !.fours = IF outcome.runs = 4 THEN @ + 1 ELSE @,
                          !.sixes = IF outcome.runs = 6 THEN @ + 1 ELSE @]]
  IN [m EXCEPT !.hb = hb1,
               !.f.runs = @ + outcome.runs,
               !.f.updated_state.runs = @ + outcome.runs,
               !.f.updated_state.batter_stats = Put(d, id, a),
               !.f.striker_idx = RotateStrike(@, outcome.runs)]

\* lines 318-372: the branch on the outcome's type
ProcessOutcome(m, team, outcome) ==
  IF outcome.type = "wicket" THEN ProcessWicket(m, team, outcome)
  ELSE IF outcome.type = "extra" THEN ProcessExtra(m, outcome)
  ELSE ProcessRuns(m, outcome)

\* lines 379-387: what a legal delivery adds to the bowler's figures
BowlerFigures(bs, outcome) ==
  IF outcome.type = "wicket"
    THEN [bs EXCEPT !.wickets = @ + 1, !.runs = @ + outcome.runs]
  ELSE IF outcome.type = "runs"
    THEN [bs EXCEPT !.runs = @ + outcome.runs,
                    !.dots = IF outcome.runs = 0 THEN @ + 1 ELSE @]
  ELSE [bs EXCEPT !.runs = @ + outcome.runs]

\* UpdateBowler charging every delivery to the bowler, legal or not
UpdateBowlerEveryBall(m, outcome) ==
  LET f == m.f
      d == f.updated_state.bowler_stats
      fresh == ~Has(d, f.bowler)
      hw0 == IF fresh THEN Append(m.hw, BowlerStats) ELSE m.hw
      a == IF fresh THEN Len(hw0) ELSE d[f.bowler]
  IN [m EXCEPT !.hw = [hw0 EXCEPT ![a] = BowlerFigures(@, outcome)],
               !.f.updated_state.bowler_stats = Put(d, f.bowler, a)]

\* lines 374-388
UpdateBowler(m, outcome) ==
  IF ~IsLegal(outcome) THEN m
  ELSE
    LET f == m.f
        d == f.updated_state.bowler_stats
        fresh == ~Has(d, f.bowler)
        hw0 == IF fresh THEN Append(m.hw, BowlerStats) ELSE m.hw
        a == IF fresh THEN Len(hw0) ELSE d[f.bowler]
    IN [m EXCEPT !.hw = [hw0 EXCEPT ![a] = BowlerFigures(@, outcome)],
                 !.f.updated_state.bowler_stats = Put(d, f.bowler, a)]

\* lines 390-392
CountLegal(f, outcome) ==
  IF IsLegal(outcome) THEN [f EXCEPT !.ball_number = @ + 1] ELSE f

\* TargetReached with the target to be passed, not reached
TargetPassed(tgt, runs) == Truthy(tgt) /\ runs > tgt[1]

\* line 395
TargetReached(tgt, runs) == Truthy(tgt) /\ runs >= tgt[1]

\* lines 394-397
CheckTarget(f, tgt) ==
  IF TargetReached(tgt, f.updated_state.runs)
    THEN [f EXCEPT !.innings_complete = TRUE] ELSE f

\* lines 295-397: one pass through the loop body with the striker found
Deliver(m, team, tgt, outcome) ==
  LET m0 == [m EXCEPT !.f.balls = @ + 1, !.f.outcome = outcome]
      m1 == ProcessOutcome(m0, team, outcome)
      m2 == UpdateBowler(m1, outcome)
  IN [m2 EXCEPT !.f = CheckTarget(CountLegal(m2.f, outcome), tgt)]

\* lines 291-293
StrikerNotFound(m) == [m EXCEPT !.f.innings_complete = TRUE]

\* EndOfOver doing its bookkeeping however the loop ended
EndOfOverAlways(m) ==
  LET f == m.f
      d == f.updated_state.bowler_stats
      fresh == ~Has(d, f.bowler)
      hw0 == IF fresh THEN Append(m.hw, BowlerStats) ELSE m.hw
      a == IF fresh THEN Len(hw0) ELSE d[f.bowler]
  IN [m EXCEPT !.hw = [hw0 EXCEPT ![a].overs = @ + 1],
               !.f.updated_state.bowler_stats = Put(d, f.bowler, a),
               !.f.striker_idx = 1 - @]

\* lines 400-408: the end-of-over bookkeeping
EndOfOver(m) ==
  IF m.f.ball_number >= BALLS_PER_OVER
    THEN
      LET f == m.f
          d == f.updated_state.bowler_stats
          fresh == ~Has(d, f.bowler)
          hw0 == IF fresh THEN Append(m.hw, BowlerStats) ELSE m.hw
          a == IF fresh THEN Len(hw0) ELSE d[f.bowler]
      IN [m EXCEPT !.hw = [hw0 EXCEPT ![a].overs = @ + 1],
                   !.f.updated_state.bowler_stats = Put(d, f.bowler, a),
                   !.f.striker_idx = 1 - @]
    ELSE m

\* lines 418-422
InningsOver(us) == us.overs >= TOTAL_OVERS \/ us.wickets >= MAX_WICKETS

\* lines 399-436: everything after the loop, up to the return
Finish(m) ==
  LET over_complete == m.f.ball_number >= BALLS_PER_OVER
      m1 == EndOfOver(m)
      f == m1.f
      over_summary == OverSummary(f.over_number, f.bowler, f.runs, f.wickets, f.balls)
      us == [f.updated_state EXCEPT
               !.overs = f.over_number + (IF over_complete THEN 1 ELSE 0),
               !.balls = IF over_complete THEN 0 ELSE f.ball_number,
               !.current_batters =
                  <<f.current_batters[f.striker_idx + 1],
                    f.current_batters[(1 - f.striker_idx) + 1]>>,
               !.over_summaries = Append(@, over_summary),
               !.recent_balls = Min(f.balls, 6)]
      done == f.innings_complete \/ InningsOver(us)
  IN [m1 EXCEPT !.f.updated_state = us, !.f.innings_complete = done]

----------------------------------------------------------------------------
(* The /simulate/over endpoint (api/v1/match.py) and its callers *)

NoResponse ==
  [http |-> 0, over_summary |-> OverSummary(0, NoPlayer, 0, 0, 0),
   updated_innings_state |-> NullFrame.updated_state, innings_complete |-> FALSE]

\* lines 186-187: HTTPException(status_code=400)
BowlerNotFound == [NoResponse EXCEPT !.http = 400]

\* lines 210-216 and 238: the SimulateOverResponse of a call that returned
Response(f) ==
  [http |-> 200,
   over_summary |-> OverSummary(f.over_number, f.bowler, f.runs, f.wickets, f.balls),
   updated_innings_state |-> f.updated_state,
   innings_complete |-> f.innings_complete]

\* an InningsState with its stats dicts read through the heaps
Deref(st, hb, hw) ==
  [st EXCEPT !.batter_stats = [k \in DOMAIN @ |-> hb[@[k]]],
             !.bowler_stats = [k \in DOMAIN @ |-> hw[@[k]]]]

\* Machine with striker_idx kept on the engine, which every call shares
MachineSharedIdx(c) ==
  [f |-> [loc[c] EXCEPT !.striker_idx = loc[1].striker_idx],
   hb |-> batter_heap, hw |-> bowler_heap]

\* the machine state of caller c's call: its own locals, and the heaps
Machine(c) == [f |-> loc[c], hb |-> batter_heap, hw |-> bowler_heap]

\* lines 286 and 399-436: after a pass of the loop the call is at the top of
\* the loop again, or it runs to its return
After(m) == IF LoopCond(m.f) THEN m ELSE Finish(m)

\* the state a pass of the loop leaves behind
Land(c, m) ==
  LET e == After(m)
  IN /\ loc' = [loc EXCEPT ![c] = e.f]
     /\ batter_heap' = e.hb
     /\ bowler_heap' = e.hw
     /\ IF LoopCond(m.f)
          THEN UNCHANGED <<pc, ret>>
          ELSE /\ pc' = [pc EXCEPT ![c] = "done"]
               /\ ret' = [ret EXCEPT ![c] = Response(e.f)]

\* match.py lines 169-199: a request arrives; the bowler is looked up and
\* simulate_over is entered
Request(c, max_calls) ==
  /\ pc[c] = "idle"
  /\ ncalls[c] < max_calls
  /\ \E bowler_id \in BowlerIds(ncalls[c]) :
       IF bowler_id \notin BowlingTeam
         THEN /\ pc' = [pc EXCEPT ![c] = "done"]
              /\ ret' = [ret EXCEPT ![c] = BowlerNotFound]
              /\ UNCHANGED <<loc, passed_in>>
         ELSE /\ pc' = [pc EXCEPT ![c] = "loop"]
              /\ loc' = [loc EXCEPT ![c] = NewFrame(innings_state[c], bowler_id)]
              /\ passed_in' = [passed_in EXCEPT ![c] =
                                 Deref(innings_state[c], batter_heap, bowler_heap)]
              /\ UNCHANGED ret
  /\ ncalls' = [ncalls EXCEPT ![c] = @ + 1]
  /\ UNCHANGED <<batting_team, target, innings_state, batter_heap, bowler_heap,
                 call>>

\* match_engine.py lines 286-397: one pass of the loop that bowls a delivery,
\* and the rest of the call when the loop ends with it
Bowl(c, max_runs, max_extras) ==
  /\ pc[c] = "loop"
  /\ FindPlayer(batting_team[c], StrikerId(loc[c])) # NoPlayer
  /\ \E outcome \in Outcomes :
       /\ loc[c].updated_state.runs + outcome.runs <= max_runs
       /\ ~IsLegal(outcome) => loc[c].balls - loc[c].ball_number < max_extras
       /\ \E m \in {Deliver(Machine(c), batting_team[c], target[c], outcome)} :
            Land(c, m)
  /\ UNCHANGED <<batting_team, target, innings_state, ncalls, passed_in, call>>

\* match_engine.py lines 288-293: the striker is not in the roster
NoStriker(c) ==
  /\ pc[c] = "loop"
  /\ FindPlayer(batting_team[c], StrikerId(loc[c])) = NoPlayer
  /\ \E m \in {StrikerNotFound(Machine(c))} : Land(c, m)
  /\ UNCHANGED <<batting_team, target, innings_state, ncalls, passed_in, call>>

\* the caller passes the state it was handed to its next request
Continue(c, max_calls) ==
  /\ pc[c] = "done"
  /\ ret[c].http = 200
  /\ ncalls[c] < max_calls
  /\ innings_state' = [innings_state EXCEPT ![c] = ret[c].updated_innings_state]
  /\ pc' = [pc EXCEPT ![c] = "idle"]
  /\ UNCHANGED <<batting_team, target, loc, ret, ncalls, passed_in,
                 batter_heap, bowler_heap, call>>

----------------------------------------------------------------------------
(* The innings states callers start from *)

\* nine wickets down for no runs, one in each of the overs 1..9
NineDown == [i \in 1..9 |-> FallOfWicket(Roster11[i], 0, 10 * i + 1)]

\* one wicket down for no runs, to the first ball of the innings
OneDown == <<FallOfWicket("A", 0, 1)>>

TwoDown == <<FallOfWicket("A", 0, 1), FallOfWicket("B", 0, 2)>>

\* no pure function has been called
NoCall == [fn |-> "none", args |-> <<>>, result |-> "none"]

Scenario(team, st, tgt) == [team |-> team, st |-> st, tgt |-> tgt]

Scenarios ==
  { Scenario(Roster3, InningsState(0, 0, 0, 0, <<"A", "B">>, <<>>), <<>>),
    Scenario(Roster3, InningsState(0, 0, 0, 0, <<"A", "B">>, <<>>), <<3>>),
    Scenario(Roster3, InningsState(0, 0, 0, 3, <<"A", "B">>, <<>>), <<>>),
    Scenario(Roster3, InningsState(0, 0, 0, 0, <<"X", "B">>, <<>>), <<>>),
    Scenario(Roster3, InningsState(0, 0, 0, 0, <<"A", "X">>, <<>>), <<>>),
    Scenario(Roster11, InningsState(0, 9, 19, 0, <<"J", "K">>, NineDown), <<>>) }

Idle == Scenario(Roster3, InningsState(0, 0, 0, 0, <<"A", "B">>, <<>>), <<>>)

InitWith(sc) ==
  /\ batting_team = [c \in Callers |-> sc[c].team]
  /\ target = [c \in Callers |-> sc[c].tgt]
  /\ innings_state = [c \in Callers |-> sc[c].st]
  /\ pc = [c \in Callers |-> "idle"]
  /\ loc = [c \in Callers |-> NullFrame]
  /\ ret = [c \in Callers |-> NoResponse]
  /\ ncalls = [c \in Callers |-> 0]
  /\ passed_in = [c \in Callers |-> sc[c].st]
  /\ batter_heap = <<>>
  /\ bowler_heap = <<>>
  /\ call = NoCall

\* one caller, one over
Init == \E s \in Scenarios : InitWith([c \in Callers |-> IF c = 1 THEN s ELSE Idle])

Next ==
  \/ Request(1, 1)
  \/ Bowl(1, MaxRuns, MaxExtras)
  \/ NoStriker(1)

Spec == Init /\ [][Next]_vars

\* one caller, over after over
NextSeq ==
  \/ Request(1, MaxCalls)
  \/ Bowl(1, SeqMaxRuns, SeqMaxExtras)
  \/ NoStriker(1)
  \/ Continue(1, MaxCalls)

SpecSeq == Init /\ [][NextSeq]_vars

\* two callers at once on the one engine, each with its own innings, one
\* over each
ConcScenarios ==
  { Scenario(Roster3, InningsState(0, 1, 1, 0, <<"B", "C">>, OneDown), <<>>),
    Scenario(Roster3, InningsState(0, 2, 1, 0, <<"C", "X">>, TwoDown), <<>>) }

InitConc == \E s1, s2 \in ConcScenarios : InitWith(<<s1, s2>>)

NextConc ==
  \E c \in Callers :
    \/ Request(c, 1)
    \/ Bowl(c, ConcMaxRuns, ConcMaxExtras)
    \/ NoStriker(c)

SpecConc == InitConc /\ [][NextConc]_vars

----------------------------------------------------------------------------
(* Reading a state of the model *)

\* caller c is inside a simulate_over call, or holds what one returned
InCall(c) == pc[c] = "loop" \/ (pc[c] = "done" /\ ret[c].http = 200)

Returned(c) == pc[c] = "done" /\ ret[c].http = 200

\* the step taken is a delivery bowled in caller c's call
Bowled(c) == pc[c] = "loop" /\ loc'[c].balls = loc[c].balls + 1

\* the state caller c got back, with its stats dicts read through the heaps
Got(c) == Deref(ret[c].updated_innings_state, batter_heap, bowler_heap)

Dismissed(st) == {st.fall_of_wickets[i].player : i \in 1..Len(st.fall_of_wickets)}

----------------------------------------------------------------------------
(* C1: every InningsState a simulate_over call returns has balls in 0..5,   *)
(* wickets <= 10 and overs <= 20, over any sequence of calls each made on   *)
(* the state the previous one returned.                                     *)
C1_OverArithmetic ==
  \A c \in Callers :
    Returned(c) =>
      /\ ret[c].updated_innings_state.balls \in 0..5
      /\ ret[c].updated_innings_state.wickets <= MAX_WICKETS
      /\ ret[c].updated_innings_state.overs <= TOTAL_OVERS

(* C2: a returned state with wickets = 10 or overs = 20 comes with          *)
(* innings_complete = true, and a call made on such a state counts no       *)
(* legal delivery: overs, balls, wickets and the bowlers' figures of the    *)
(* state it returns are those of the state passed in.                       *)
C2_CompleteStaysComplete ==
  \A c \in Callers :
    Returned(c) =>
      /\ (Got(c).wickets = MAX_WICKETS \/ Got(c).overs = TOTAL_OVERS)
            => ret[c].innings_complete
      /\ (passed_in[c].wickets = MAX_WICKETS \/ passed_in[c].overs = TOTAL_OVERS)
            => /\ loc[c].ball_number = 0
               /\ Got(c).overs = passed_in[c].overs
               /\ Got(c).balls = passed_in[c].balls
               /\ Got(c).wickets = passed_in[c].wickets
               /\ Got(c).bowler_stats = passed_in[c].bowler_stats

(* C3: once a delivery of the call, legal or not, has taken the team's runs *)
(* to the target or past it, the call has returned, with innings_complete   *)
(* true: there is no state in which the loop goes on to another delivery.   *)
C3_ChaseCompletion ==
  \A c \in Callers :
    (InCall(c) /\ target[c] # <<>> /\ loc[c].balls >= 1
       /\ loc[c].updated_state.runs >= target[c][1])
      => Returned(c) /\ ret[c].innings_complete

\* the chase is won by a wide or no-ball before the sixth legal delivery
C3_Witness ==
  /\ Returned(1) /\ target[1] # <<>>
  /\ Got(1).runs >= target[1][1]
  /\ loc[1].outcome.type = "extra"
  /\ loc[1].ball_number \in 1..5
  /\ ret[1].innings_complete

\* the roster's batters who are neither in the pair nor dismissed
Unused(team, pair, st) == Range(team) \ (Range(pair) \cup Dismissed(st))

(* C4: a delivery that takes a wicket when the roster holds no batter who   *)
(* is neither in the pair at the crease nor in the fall-of-wicket history   *)
(* ends the call: it returns with innings_complete true and no further      *)
(* delivery, however many legal deliveries were bowled.                     *)
C4_DismissalExhaustion ==
  [][\A c \in Callers :
       (Bowled(c) /\ loc'[c].outcome.type = "wicket"
          /\ Unused(batting_team[c], loc[c].current_batters,
                    loc'[c].updated_state) = {})
         => pc'[c] = "done" /\ ret'[c].http = 200 /\ ret'[c].innings_complete]_vars

\* the last batter of a three-player roster falls on the first ball
C4_Witness ==
  /\ Returned(1) /\ ret[1].innings_complete
  /\ loc[1].outcome.type = "wicket"
  /\ Got(1).wickets = 2 /\ passed_in[1].wickets = 0
  /\ loc[1].ball_number < BALLS_PER_OVER
  /\ Got(1).balls = loc[1].ball_number
  /\ Unused(batting_team[1], loc[1].current_batters, Got(1)) = {}

\* the slot on strike after a delivery, by the rule of the claim
StrikeAfter(idx, outcome) ==
  IF outcome.type = "runs" /\ outcome.runs \in {1, 3} THEN 1 - idx ELSE idx

\* C5, per delivery: odd running swaps the strike and nothing else does; a
\* replacement takes the dismissed striker's slot; the over's last legal
\* delivery is followed by exactly one more swap
C5_Step(c) ==
  Bowled(c) =>
    LET f == loc[c]
        g == loc'[c]
        idx == StrikeAfter(f.striker_idx, g.outcome)
        other == (1 - f.striker_idx) + 1
    IN /\ g.current_batters[other] = f.current_batters[other]
       /\ g.outcome.type # "wicket" => g.current_batters = f.current_batters
       /\ (g.outcome.type = "wicket" /\ pc'[c] = "loop")
            => g.current_batters[f.striker_idx + 1]
                 \in Unused(batting_team[c], f.current_batters, g.updated_state)
       /\ g.striker_idx = IF g.ball_number = BALLS_PER_OVER THEN 1 - idx ELSE idx
       /\ pc'[c] = "done"
            => ret'[c].updated_innings_state.current_batters
                 = <<g.current_batters[g.striker_idx + 1],
                     g.current_batters[(1 - g.striker_idx) + 1]>>

\* the over 1, 1, 4, 6, 2, wicket bowled to A and B from the start of an
\* innings, as the figures it leaves: A has 13 off 4 balls with a four and a
\* six, B has 1 off 1, and A falls to the sixth ball with the score on 14
C5_ExampleOver(c) ==
  /\ Returned(c) /\ passed_in[c] = InningsState(0, 0, 0, 0, <<"A", "B">>, <<>>)
  /\ batting_team[c] = Roster3
  /\ ret[c].over_summary.balls = 6
  /\ Got(c).fall_of_wickets = <<FallOfWicket("A", 14, 6)>>
  /\ Got(c).batter_stats =
       [k \in {"A", "B"} |->
          IF k = "A" THEN [runs |-> 13, balls |-> 4, fours |-> 1, sixes |-> 1]
                     ELSE [runs |-> 1, balls |-> 1, fours |-> 0, sixes |-> 0]]

(* C5: strike rotation.  Over a call that bowls six legal deliveries the    *)
(* strike is swapped once by each delivery on which 1 or 3 were run and by  *)
(* no other delivery, a dismissed striker's replacement takes the striker's *)
(* slot, and one more swap is applied after the sixth legal delivery; the   *)
(* over 1, 1, 4, 6, 2, wicket to (A, B) with C next returns (B, C).         *)
C5_StrikeRotation ==
  /\ [][\A c \in Callers : C5_Step(c)]_vars
  /\ [](\A c \in Callers :
          C5_ExampleOver(c) => Got(c).current_batters = <<"B", "C">>)

C5_Witness == C5_ExampleOver(1) /\ ~ret[1].innings_complete

(* C6: the legal-ball counter goes up by one on every delivery that is not  *)
(* a wide or a no-ball and stays on a wide or no-ball, whose runs are still *)
(* added to the team's total; a call that does not end the innings has      *)
(* bowled exactly six legal deliveries and returns overs + 1 and balls = 0. *)
C6_LegalBallCounter ==
  /\ [][\A c \in Callers :
          Bowled(c) =>
            LET o == loc'[c].outcome
                extra == o.type = "extra" /\ o.extra_type \in {"wide", "noball"}
            IN /\ loc'[c].ball_number
                    = loc[c].ball_number + (IF extra THEN 0 ELSE 1)
               /\ loc'[c].updated_state.runs
                    = loc[c].updated_state.runs + o.runs]_vars
  /\ [](\A c \in Callers :
          (Returned(c) /\ ~ret[c].innings_complete) =>
            /\ loc[c].ball_number = BALLS_PER_OVER
            /\ Got(c).overs = passed_in[c].overs + 1
            /\ Got(c).balls = 0)

\* an over of six legal deliveries and a wide
C6_Witness ==
  /\ Returned(1) /\ ~ret[1].innings_complete
  /\ loc[1].balls = 7 /\ loc[1].ball_number = 6
  /\ Got(1).runs >= 1
  /\ Got(1).overs = passed_in[1].overs + 1

(* C7: simulate_over leaves the InningsState it was passed unchanged in     *)
(* every field, the figures of its existing batter and bowler entries       *)
(* included.                                                                *)
C7_InputUntouched ==
  \A c \in Callers :
    InCall(c) => Deref(innings_state[c], batter_heap, bowler_heap) = passed_in[c]

(* C9: a state returned with innings_complete = false names two distinct    *)
(* batters at the crease, neither of them in the fall-of-wicket history.    *)
C9_PairNotDismissed ==
  \A c \in Callers :
    (Returned(c) /\ ~ret[c].innings_complete) =>
      /\ Got(c).current_batters[1] # Got(c).current_batters[2]
      /\ Range(Got(c).current_batters) \cap Dismissed(Got(c)) = {}

(* C10: a request whose striker is not in the batting roster is rejected:   *)
(* it is not answered with a normal over result.                            *)
C10_UnknownStrikerRejected ==
  \A c \in Callers :
    (pc[c] = "done"
       /\ innings_state[c].current_batters[1] \notin Range(batting_team[c]))
      => ret[c].http # 200

----------------------------------------------------------------------------
(* Concurrent callers *)

\* what caller c can see of the program's state
ViewOf(p, f, r, st, hb, hw) ==
  [pc |-> p,
   loc |-> [f EXCEPT !.updated_state = Deref(@, hb, hw)],
   ret |-> [r EXCEPT !.updated_innings_state = Deref(@, hb, hw)],
   innings_state |-> Deref(st, hb, hw)]

View(c) == ViewOf(pc[c], loc[c], ret[c], innings_state[c], batter_heap, bowler_heap)

\* the heap addresses caller c's states refer to
OwnedBy(c, field) ==
  LET Addr(st) == {st[field][k] : k \in DOMAIN st[field]}
  IN Addr(innings_state[c]) \cup Addr(loc[c].updated_state)
       \cup Addr(ret[c].updated_innings_state)

\* caller c's call running alone: every object of another caller is wiped
Alone(c) ==
  [f |-> loc[c],
   hb |-> [a \in DOMAIN batter_heap |->
             IF a \in OwnedBy(c, "batter_stats") THEN batter_heap[a]
             ELSE [runs |-> -1, balls |-> -1, fours |-> -1, sixes |-> -1]],
   hw |-> [a \in DOMAIN bowler_heap |->
             IF a \in OwnedBy(c, "bowler_stats") THEN bowler_heap[a]
             ELSE [overs |-> -1, runs |-> -1, wickets |-> -1, dots |-> -1]]]

\* what caller c sees after a pass of the loop that leaves machine state m
Seen(c, m) ==
  LET e == After(m)
  IN ViewOf(IF LoopCond(m.f) THEN "loop" ELSE "done", e.f,
            IF LoopCond(m.f) THEN ret[c] ELSE Response(e.f),
            innings_state[c], e.hb, e.hw)

\* what caller c sees after the step its call takes when it runs alone, the
\* bowler named and the outcome drawn being those of the step taken
AloneStep(c) ==
  IF pc[c] = "idle"
    THEN IF pc'[c] = "done"
           THEN ViewOf("done", loc[c], BowlerNotFound, innings_state[c],
                       Alone(c).hb, Alone(c).hw)
           ELSE ViewOf("loop", NewFrame(innings_state[c], loc'[c].bowler), ret[c],
                       innings_state[c], Alone(c).hb, Alone(c).hw)
  ELSE IF StrikerId(loc[c]) \notin Range(batting_team[c])
    THEN Seen(c, StrikerNotFound(Alone(c)))
  ELSE Seen(c, Deliver(Alone(c), batting_team[c], target[c], loc'[c].outcome))

(* C8: with several callers on the one engine, each with its own            *)
(* InningsState, every step changes what one caller sees and nothing of     *)
(* what the others see, and changes it exactly as the same step of that     *)
(* caller's call would with the other callers' objects wiped: no call reads *)
(* or writes what another caller's call wrote, so each caller obtains the   *)
(* states it would obtain alone.                                            *)
C8_ConcurrentCallers ==
  [][\A c \in Callers :
       View(c)' # View(c) =>
         /\ \A d \in Callers \ {c} : View(d)' = View(d)
         /\ pc[c] \in {"idle", "loop"}
         /\ View(c)' = AloneStep(c)]_vars

\* both overs are bowled to the end, interleaved: the stats objects were
\* allocated by caller 1, then caller 2, then caller 1
C8_Witness ==
  /\ Returned(1) /\ Returned(2)
  /\ loc[1].ball_number = BALLS_PER_OVER /\ loc[2].ball_number = BALLS_PER_OVER
  /\ DOMAIN ret[1].updated_innings_state.batter_stats = {"B", "C"}
  /\ "B" \in DOMAIN ret[2].updated_innings_state.batter_stats
  /\ ret[1].updated_innings_state.batter_stats["B"] = 1
  /\ ret[2].updated_innings_state.batter_stats["B"] = 2
  /\ ret[1].updated_innings_state.batter_stats["C"] = 3

----------------------------------------------------------------------------
(* The engine's pure functions.  An overs value is a float in the source,   *)
(* overs + balls / 6; the model counts it in sixths of an over.             *)

\* the largest overs value, in sixths, handed to get_phase
MaxSixths == 126

\* get_phase with the powerplay reaching to the end of the sixth over's
\* first ball
get_phase_late(sixths) ==
  IF sixths <= 6 * 6 THEN "powerplay"
  ELSE IF sixths < 16 * 6 THEN "middle"
  ELSE "death"

\* match_engine.py lines 53-59
get_phase(sixths) ==
  IF sixths < 6 * 6 THEN "powerplay"
  ELSE IF sixths < 16 * 6 THEN "middle"
  ELSE "death"

\* match_engine.py line 79: overs = innings_state.overs + innings_state.balls / 6
ContextOvers(st) == 6 * st.overs + st.balls

\* match_engine.py lines 79-80 and 296-299: the phase simulate_ball uses for
\* the delivery about to be bowled in a call whose locals are f
PhaseOfBall(f) == get_phase(ContextOvers(f.updated_state))

\* a call of get_phase, made once the over has been returned
GetPhaseCall ==
  /\ pc[1] = "done" /\ call = NoCall
  /\ \E sixths \in 0..MaxSixths :
       call' = [fn |-> "get_phase", args |-> <<sixths>>, result |-> get_phase(sixths)]
  /\ UNCHANGED <<batting_team, target, innings_state, pc, loc, ret, ncalls,
                 passed_in, batter_heap, bowler_heap>>

\* SpecPhase: the cap on team runs and on extras in a call
PhaseMaxRuns == 1

PhaseMaxExtras == 0

\* overs that start at either side of the two phase boundaries, from the
\* first ball or with five balls of the over reported as bowled
PhaseScenarios ==
  { Scenario(Roster11, InningsState(0, 0, o, b, <<"A", "B">>, <<>>), <<>>) :
      o \in {5, 6, 15, 16}, b \in {0, 5} }

InitPhase ==
  \E s \in PhaseScenarios : InitWith([c \in Callers |-> IF c = 1 THEN s ELSE Idle])

NextPhase ==
  \/ Request(1, 1)
  \/ Bowl(1, PhaseMaxRuns, PhaseMaxExtras)
  \/ GetPhaseCall

SpecPhase == InitPhase /\ [][NextPhase]_vars

(* C14: get_phase gives powerplay below 6 overs, middle from 6 up to but    *)
(* not 16, death from 16 on; and in simulate_over the phase of a delivery   *)
(* is powerplay exactly when fewer than 6 overs are complete, and death     *)
(* exactly when 16 or more are.                                             *)
C14_PhaseBoundaries ==
  /\ call.fn = "get_phase" =>
       LET sixths == call.args[1]
       IN /\ call.result = "powerplay" <=> sixths < 36
          /\ call.result = "middle" <=> (sixths >= 36 /\ sixths < 96)
          /\ call.result = "death" <=> sixths >= 96
  /\ \A c \in Callers :
       pc[c] = "loop" =>
         /\ PhaseOfBall(loc[c]) = "powerplay" <=> loc[c].over_number < 6
         /\ PhaseOfBall(loc[c]) = "death" <=> loc[c].over_number >= 16

\* the sixth over has been bowled to its last ball, and get_phase was asked
\* about exactly 6 overs
C14_Witness ==
  /\ Returned(1) /\ loc[1].over_number = 5 /\ loc[1].ball_number = BALLS_PER_OVER
  /\ Got(1).overs = 6 /\ PhaseOfBall(loc[1]) = "middle"
  /\ call.fn = "get_phase" /\ call.args = <<36>> /\ call.result = "middle"

----------------------------------------------------------------------------
(* get_batsman_state and get_pressure_level, which the /simulate/ball       *)
(* endpoint calls for its context updates                                   *)

\* the largest balls-faced figure handed to get_batsman_state
MaxBallsFaced == 20

\* the largest target and the largest team score handed to get_pressure_level
MaxTarget == 30

MaxScore == 3

\* params["batsman_state"]["thresholds"]: the defaults, and other tables
DefaultThresholds == [new |-> 6, settling |-> 15]

Thresholds ==
  {DefaultThresholds, [new |-> 3, settling |-> 8], [new |-> 4, settling |-> 4],
   [new |-> 9, settling |-> 5]}

\* get_batsman_state with a batter still new on the threshold itself
get_batsman_state_inclusive(thresholds, balls_faced) ==
  IF balls_faced <= thresholds.new THEN "new"
  ELSE IF balls_faced < thresholds.settling THEN "settling"
  ELSE "set"

\* match_engine.py lines 438-445
get_batsman_state(thresholds, balls_faced) ==
  IF balls_faced < thresholds.new THEN "new"
  ELSE IF balls_faced < thresholds.settling THEN "settling"
  ELSE "set"

\* probability_model.py lines 196-203: ProbabilityModel._get_batsman_state
model_get_batsman_state(thresholds, balls_faced) ==
  IF balls_faced < thresholds.new THEN "new"
  ELSE IF balls_faced < thresholds.settling THEN "settling"
  ELSE "set"

\* a float quotient a / b is kept in thousandths, rounded down
Scale == 1000

Quotient(a, b) == (a * Scale) \div b

\* get_pressure_level counting whole overs only
get_pressure_level_overs(st, tgt) ==
  IF tgt = <<>> THEN "low"
  ELSE
    LET balls_remaining == (TOTAL_OVERS - st.overs) * 6
    IN IF balls_remaining <= 0 THEN "high"
       ELSE
         LET required_rate == Quotient(tgt[1] - st.runs, balls_remaining) * 6
         IN IF required_rate > 12 * Scale THEN "high"
            ELSE IF required_rate > 9 * Scale THEN "medium"
            ELSE "low"

\* match_engine.py lines 447-463
get_pressure_level(st, tgt) ==
  IF tgt = <<>> THEN "low"
  ELSE
    LET balls_remaining == (TOTAL_OVERS - st.overs) * 6 - st.balls
    IN IF balls_remaining <= 0 THEN "high"
       ELSE
         LET required_rate == Quotient(tgt[1] - st.runs, balls_remaining) * 6
         IN IF required_rate > 12 * Scale THEN "high"
            ELSE IF required_rate > 9 * Scale THEN "medium"
            ELSE "low"

\* match.py lines 108-112
GetBatsmanStateCall ==
  /\ call = NoCall
  /\ \E thresholds \in Thresholds, balls_faced \in 0..MaxBallsFaced :
       call' = [fn |-> "get_batsman_state", args |-> <<thresholds, balls_faced>>,
                result |-> <<get_batsman_state(thresholds, balls_faced),
                             model_get_batsman_state(thresholds, balls_faced)>>]
  /\ UNCHANGED <<batting_team, target, innings_state, pc, loc, ret, ncalls,
                 passed_in, batter_heap, bowler_heap>>

\* match.py line 113
GetPressureLevelCall ==
  /\ call = NoCall
  /\ \E overs \in {18, 19, 20, 21}, balls \in 0..5, runs \in 0..MaxScore,
        tgt \in {<<>>} \cup {<<t>> : t \in 0..MaxTarget} :
       LET st == InningsState(runs, 0, overs, balls, <<"A", "B">>, <<>>)
       IN call' = [fn |-> "get_pressure_level", args |-> <<st, tgt>>,
                   result |-> get_pressure_level(st, tgt)]
  /\ UNCHANGED <<batting_team, target, innings_state, pc, loc, ret, ncalls,
                 passed_in, batter_heap, bowler_heap>>

InitFn == InitWith([c \in Callers |-> Idle])

NextFn ==
  \/ GetBatsmanStateCall
  \/ GetPressureLevelCall

SpecFn == InitFn /\ [][NextFn]_vars

(* C15: get_batsman_state gives new below the 'new' threshold, settling     *)
(* from there up to but not the 'settling' threshold, and set otherwise;    *)
(* the probability model's _get_batsman_state gives the same state.         *)
C15_BatsmanState ==
  call.fn = "get_batsman_state" =>
    LET thresholds == call.args[1]
        balls_faced == call.args[2]
    IN /\ call.result[1] = "new" <=> balls_faced < thresholds.new
       /\ call.result[1] = "settling" <=>
            (balls_faced >= thresholds.new /\ balls_faced < thresholds.settling)
       /\ call.result[1] = "set" <=>
            (balls_faced >= thresholds.new /\ balls_faced >= thresholds.settling)
       /\ call.result[2] = call.result[1]

\* six balls faced with the default thresholds: settling
C15_Witness ==
  /\ call.fn = "get_batsman_state"
  /\ call.args = <<DefaultThresholds, 6>>
  /\ call.result = <<"settling", "settling">>

(* C16: get_pressure_level gives low without a target; with one, and        *)
(* balls_remaining = (20 - overs) * 6 - balls, it gives high when none      *)
(* remain, else high when 6 * (target - runs) > 12 * balls_remaining, else  *)
(* medium when 6 * (target - runs) > 9 * balls_remaining, else low.         *)
C16_PressureLevel ==
  call.fn = "get_pressure_level" =>
    LET st == call.args[1]
        tgt == call.args[2]
        balls_remaining == (20 - st.overs) * 6 - st.balls
    IN call.result =
         IF tgt = <<>> THEN "low"
         ELSE IF balls_remaining <= 0 THEN "high"
         ELSE IF 6 * (tgt[1] - st.runs) > 12 * balls_remaining THEN "high"
         ELSE IF 6 * (tgt[1] - st.runs) > 9 * balls_remaining THEN "medium"
         ELSE "low"

\* 4 balls left and 7 to get: 10.5 an over, medium
C16_Witness ==
  /\ call.fn = "get_pressure_level"
  /\ call.args[1].overs = 19 /\ call.args[1].balls = 2 /\ call.args[1].runs = 0
  /\ call.args[2] = <<7>>
  /\ call.result = "medium"

----------------------------------------------------------------------------
(* The bookkeeping of simulate_over *)

\* the completed overs the figures st holds for bowler b
OversOf(st, b) == IF Has(st.bowler_stats, b) THEN st.bowler_stats[b].overs ELSE 0

(* C17: the end-of-over bookkeeping is done only when the call bowled six   *)
(* legal deliveries.  A call that ends before the sixth legal delivery      *)
(* leaves overs and the bowler's overs as they were, applies no over-end    *)
(* swap, and returns balls = the legal deliveries it bowled; a call that    *)
(* bowls six adds one to each and swaps the strike once.                    *)
C17_EndOfOverBookkeeping ==
  /\ [](\A c \in Callers :
          Returned(c) =>
            LET six == IF loc[c].ball_number = BALLS_PER_OVER THEN 1 ELSE 0
            IN /\ Got(c).overs = passed_in[c].overs + six
               /\ OversOf(Got(c), loc[c].bowler)
                    = OversOf(passed_in[c], loc[c].bowler) + six
               /\ Got(c).balls = IF six = 1 THEN 0 ELSE loc[c].ball_number)
  /\ [][\A c \in Callers :
          (pc[c] = "loop" /\ pc'[c] = "done") =>
            LET idx == IF Bowled(c) THEN StrikeAfter(loc[c].striker_idx, loc'[c].outcome)
                       ELSE loc[c].striker_idx
            IN loc'[c].striker_idx =
                 IF loc'[c].ball_number = BALLS_PER_OVER THEN 1 - idx ELSE idx]_vars

\* the roster runs out on the third legal delivery of the over
C17_Witness ==
  /\ Returned(1) /\ ret[1].innings_complete
  /\ loc[1].ball_number = 3 /\ loc[1].outcome.type = "wicket"
  /\ Got(1).balls = 3 /\ Got(1).overs = passed_in[1].overs
  /\ OversOf(Got(1), loc[1].bowler) = 0
  /\ Has(Got(1).bowler_stats, loc[1].bowler)

\* the records of a fall-of-wicket list are in non-decreasing order of
\* position and of team runs
InOrder(fow) ==
  \A i \in 1..Len(fow) - 1 :
    fow[i].overs <= fow[i + 1].overs /\ fow[i].runs <= fow[i + 1].runs

\* C18, per delivery: a wicket adds one to wickets and appends one record,
\* of the striker, the team's runs and the position; no other delivery
\* changes either
C18_Step(c) ==
  Bowled(c) =>
    LET f == loc[c]
        g == loc'[c]
    IN IF g.outcome.type = "wicket"
         THEN /\ g.updated_state.wickets = f.updated_state.wickets + 1
              /\ g.updated_state.fall_of_wickets =
                   Append(f.updated_state.fall_of_wickets,
                          FallOfWicket(StrikerId(f), g.updated_state.runs,
                                       10 * f.over_number + f.ball_number + 1))
         ELSE /\ g.updated_state.wickets = f.updated_state.wickets
              /\ g.updated_state.fall_of_wickets = f.updated_state.fall_of_wickets

(* C18: each wicket adds one to wickets and appends one fall-of-wicket      *)
(* record with the dismissed striker, the team's runs and the position      *)
(* over + (legal balls bowled in the over + 1) / 10; so after any sequence  *)
(* of calls the records are as many as the wickets and are in               *)
(* non-decreasing order of position and of team runs.                       *)
C18_FallOfWickets ==
  /\ [][\A c \in Callers : C18_Step(c)]_vars
  /\ [](\A c \in Callers :
          Returned(c) =>
            /\ Len(Got(c).fall_of_wickets) = Got(c).wickets
            /\ InOrder(Got(c).fall_of_wickets))

\* the figures the call with locals f holds for its bowler, read through heap hw
Figures(f, hw) ==
  IF Has(f.updated_state.bowler_stats, f.bowler)
    THEN hw[f.updated_state.bowler_stats[f.bowler]]
    ELSE BowlerStats

(* C19: the bowler's figures change only on legal deliveries.  A wide or    *)
(* no-ball leaves runs, dots and wickets as they were, a legal dot adds one *)
(* dot, a legal scoring ball adds its runs, a wicket adds one wicket, and   *)
(* the completed-overs count goes up by one exactly when the call has       *)
(* bowled six legal deliveries.                                             *)
C19_BowlerFigures ==
  [][\A c \in Callers :
       pc[c] = "loop" =>
         LET old == Figures(loc[c], bowler_heap)
             new == Figures(loc'[c], bowler_heap')
             o == loc'[c].outcome
             extra == o.type = "extra" /\ o.extra_type \in {"wide", "noball"}
             over == IF pc'[c] = "done" /\ loc'[c].ball_number = BALLS_PER_OVER
                       THEN 1 ELSE 0
         IN /\ new.overs = old.overs + over
            /\ IF ~Bowled(c) \/ extra
                 THEN /\ new.runs = old.runs
                      /\ new.dots = old.dots
                      /\ new.wickets = old.wickets
                 ELSE /\ new.runs = old.runs + o.runs
                      /\ new.dots = old.dots + (IF o.type = "runs" /\ o.runs = 0
                                                  THEN 1 ELSE 0)
                      /\ new.wickets = old.wickets + (IF o.type = "wicket"
                                                        THEN 1 ELSE 0)]_vars

\* an over of a wide and six legal balls, with a dot, a wicket and four runs
\* off the bat among them
C19_Witness ==
  /\ Returned(1) /\ loc[1].balls = 7 /\ loc[1].ball_number = BALLS_PER_OVER
  /\ ret[1].over_summary.runs = 5
  /\ Figures(loc[1], bowler_heap) = [overs |-> 1, runs |-> 4, wickets |-> 1, dots |-> 1]

----------------------------------------------------------------------------
(* The chase-pressure stage inside simulate_over *)

\* probability_model.py line 373: balls_remaining = (20 - ctx.overs) * 6, for
\* an overs value in sixths
ChaseBallsRemaining(sixths) == 20 * 6 - sixths

\* match_engine.py lines 79, 103 and 296-304: the balls_remaining figure the
\* chase-pressure stage works with for the delivery about to be bowled in a
\* call whose locals are f
BallsRemainingOfBall(f) == ChaseBallsRemaining(ContextOvers(f.updated_state))

(* C20: for each delivery of a chase inside simulate_over, the required     *)
(* rate is worked out from the legal balls left at that delivery,           *)
(* 120 - 6 * overs - the legal deliveries already bowled in the over.       *)
C20_RequiredRateBalls ==
  \A c \in Callers :
    (pc[c] = "loop" /\ target[c] # <<>>) =>
      BallsRemainingOfBall(loc[c])
        = 120 - 6 * loc[c].over_number - loc[c].ball_number

----------------------------------------------------------------------------
(* ProbabilityModel.calculate_probabilities (engine/probability_model.py).  *)
(* A probability and a multiplier are floats in the source; the model keeps *)
(* both in thousandths (Scale), rounding a product down.  A Python dict is  *)
(* a function, a missing key a value outside its DOMAIN.  d[k] on a missing *)
(* key raises KeyError; d.get(k, default) does not.                         *)

Classes == {"dot", "single", "two", "three", "four", "six", "wicket"}

\* d.get(k, default)
Get(d, k, default) == IF Has(d, k) THEN d[k] ELSE default

\* the empty dict {} that .get falls back to
NoMods == [k \in {} |-> Scale]

\* a float product x * m, m in thousandths
Mul(x, m) == (x * m) \div Scale

\* a result of calculate_probabilities: a distribution, or an exception
Returns(probs) == [raised |-> "none", probs |-> probs]

Raises(e) == [raised |-> e, probs |-> [k \in Classes |-> 0]]

\* lines 136-149
apply_boundary_wicket_mods(probs, boundary_mod, wicket_mod, dot_mod) ==
  [probs EXCEPT !["four"] = Mul(@, boundary_mod), !["six"] = Mul(@, boundary_mod),
                !["wicket"] = Mul(@, wicket_mod), !["dot"] = Mul(@, dot_mod)]

\* lines 253-257 and 290-294: a bucket of the pressure table, when not empty
ApplyBucket(probs, mods) ==
  apply_boundary_wicket_mods(probs, Get(mods, "boundary_mod", Scale),
                             Get(mods, "wicket_mod", Scale),
                             Get(mods, "dot_mod", Scale))

\* lines 262-270, 321-324, 337-340, 357-360, 390-393: a bucket that leaves
\* the dot rate alone
ApplyBucketNoDot(probs, mods) ==
  apply_boundary_wicket_mods(probs, Get(mods, "boundary_mod", Scale),
                             Get(mods, "wicket_mod", Scale), Scale)

\* lines 151-165: the skill differential, in hundredths of a skill point
calculate_skill_differential(striker, bowler) ==
  (striker.technique * 25 + striker.power * 25 + striker.timing * 30
     + striker.temperament * 20)
  - (bowler.speed * 20 + bowler.accuracy * 35 + bowler.variation * 25
     + bowler.stamina * 20)

\* lines 167-176: modifier = 1 + skill_diff * 0.15, and its reciprocal
apply_skill_modifiers(probs, skill_diff) ==
  LET modifier == Scale + (skill_diff * 15) \div 1000
  IN [probs EXCEPT !["four"] = Mul(@, modifier), !["six"] = Mul(@, modifier),
                   !["wicket"] = Mul(@, (Scale * Scale) \div modifier)]

\* lines 178-194: 1 + form / 200
apply_form_modifiers(probs, batter_form, bowler_form) ==
  LET batter_mod == Scale + batter_form * 5
      bowler_mod == Scale + bowler_form * 5
  IN [probs EXCEPT !["four"] = Mul(@, batter_mod), !["six"] = Mul(@, batter_mod),
                   !["wicket"] = Mul(@, bowler_mod)]

\* lines 215-230, with the length's configuration found
get_bowling_length_effectiveness(bowler, length_config) ==
  LET skill_type == length_config["skill_type"]
      min_skill == length_config["min_skill"]
      relevant_skill == IF skill_type = "speed" THEN bowler.speed
                        ELSE IF skill_type = "variation" THEN bowler.variation
                        ELSE bowler.accuracy
  IN IF relevant_skill < min_skill
       THEN LET e == Scale - (min_skill - relevant_skill) * 20
            IN IF e > 500 THEN e ELSE 500
       ELSE LET e == Scale + (relevant_skill - min_skill) * 5
            IN IF e < 1300 THEN e ELSE 1300

\* lines 301-362.  The table's keys 0..4 may be ints or strings in the
\* source, which looks for both; the model has the one key.
apply_momentum_modifiers(params, probs, ctx) ==
  LET momentum == params.momentum
      by_recent_runs == Get(momentum, "by_recent_runs", NoMods)
      runs_mods ==
        IF ctx.recent_runs >= 15 THEN Get(by_recent_runs, "15_24", NoMods)
        ELSE IF ctx.recent_runs >= 8 THEN Get(by_recent_runs, "8_14", NoMods)
        ELSE IF ctx.recent_runs >= 3 THEN Get(by_recent_runs, "3_7", NoMods)
        ELSE Get(by_recent_runs, "0_2", NoMods)
      by_boundaries == Get(momentum, "by_recent_boundaries", NoMods)
      boundary_mods ==
        IF ctx.recent_boundaries >= 3 THEN Get(by_boundaries, "3_plus", NoMods)
        ELSE IF ctx.recent_boundaries = 2 THEN Get(by_boundaries, "2", NoMods)
        ELSE IF ctx.recent_boundaries = 1 THEN Get(by_boundaries, "1", NoMods)
        ELSE Get(by_boundaries, "0", NoMods)
      by_dots == Get(momentum, "by_recent_dots", NoMods)
      dots_mods ==
        IF ctx.recent_dots >= 5 THEN Get(by_dots, "5_plus", NoMods)
        ELSE IF ctx.recent_dots = 4 THEN Get(by_dots, "4", NoMods)
        ELSE IF ctx.recent_dots = 3 THEN Get(by_dots, "3", NoMods)
        ELSE IF ctx.recent_dots = 2 THEN Get(by_dots, "2", NoMods)
        ELSE IF ctx.recent_dots = 1 THEN Get(by_dots, "1", NoMods)
        ELSE Get(by_dots, "0", NoMods)
  IN ApplyBucketNoDot(ApplyBucketNoDot(ApplyBucketNoDot(probs, runs_mods),
                                       boundary_mods), dots_mods)

\* lines 232-299
apply_pressure_modifiers(params, probs, ctx) ==
  LET pressure == params.pressure
      recent_wickets_config == Get(pressure, "recent_wickets", NoMods)
      wickets_mods ==
        IF ctx.recent_wickets >= 3 THEN Get(recent_wickets_config, "3", NoMods)
        ELSE IF ctx.recent_wickets = 2 THEN Get(recent_wickets_config, "2", NoMods)
        ELSE IF ctx.recent_wickets = 1 THEN Get(recent_wickets_config, "1", NoMods)
        ELSE Get(recent_wickets_config, "0", NoMods)
      bowler_roll == Get(pressure, "bowler_on_roll", NoMods)
      roll_mods ==
        IF ctx.bowler_wickets >= 3 THEN Get(bowler_roll, "3_wickets", NoMods)
        ELSE IF ctx.bowler_wickets >= 2 THEN Get(bowler_roll, "2_wickets", NoMods)
        ELSE NoMods
      partnership == Get(pressure, "partnership", NoMods)
      partnership_mods ==
        IF ctx.partnership_runs >= 100 THEN Get(partnership, "100_plus", NoMods)
        ELSE IF ctx.partnership_runs >= 75 THEN Get(partnership, "75_100", NoMods)
        ELSE IF ctx.partnership_runs >= 50 THEN Get(partnership, "50_75", NoMods)
        ELSE IF ctx.partnership_runs >= 30 THEN Get(partnership, "30_50", NoMods)
        ELSE IF ctx.partnership_runs >= 20 THEN Get(partnership, "20_30", NoMods)
        ELSE IF ctx.partnership_runs >= 10 THEN Get(partnership, "10_20", NoMods)
        ELSE Get(partnership, "0_10", NoMods)
      p1 == ApplyBucket(probs, wickets_mods)
      p2 == ApplyBucketNoDot(p1, roll_mods)
      p3 == ApplyBucket(p2, partnership_mods)
  IN apply_momentum_modifiers(params, p3, ctx)

\* apply_chase_pressure taking the steepest bucket when no balls remain
apply_chase_pressure_steepest(params, probs, ctx) ==
  LET pressure == Get(params.pressure, "required_rate", NoMods)
      balls_remaining == ChaseBallsRemaining(ctx.overs)
  IN IF balls_remaining <= 0
       THEN ApplyBucketNoDot(probs, Get(pressure, "over_12", NoMods))
     ELSE
       LET runs_needed == ctx.target[1] - ctx.current_runs
           required_rate == Quotient(runs_needed, balls_remaining) * 6
           mods == IF required_rate > 12 * Scale THEN Get(pressure, "over_12", NoMods)
                   ELSE IF required_rate > 9 * Scale THEN Get(pressure, "9_to_12", NoMods)
                   ELSE IF required_rate > 6 * Scale THEN Get(pressure, "normal", NoMods)
                   ELSE Get(pressure, "low", NoMods)
       IN ApplyBucketNoDot(probs, mods)

\* lines 364-395, called when ctx.target is not None
apply_chase_pressure(params, probs, ctx) ==
  LET pressure == Get(params.pressure, "required_rate", NoMods)
      balls_remaining == ChaseBallsRemaining(ctx.overs)
  IN IF balls_remaining <= 0 THEN probs
     ELSE
       LET runs_needed == ctx.target[1] - ctx.current_runs
           required_rate == Quotient(runs_needed, balls_remaining) * 6
           mods == IF required_rate > 12 * Scale THEN Get(pressure, "over_12", NoMods)
                   ELSE IF required_rate > 9 * Scale THEN Get(pressure, "9_to_12", NoMods)
                   ELSE IF required_rate > 6 * Scale THEN Get(pressure, "normal", NoMods)
                   ELSE Get(pressure, "low", NoMods)
       IN ApplyBucketNoDot(probs, mods)

\* sum(probs.values())
Total(probs) ==
  probs["dot"] + probs["single"] + probs["two"] + probs["three"]
    + probs["four"] + probs["six"] + probs["wicket"]

\* a normalized probability is kept in units of 1e-5, rounded to the nearest
Fine == 100000

\* normalize dividing by the total of the base table, not of the values
normalize_by_base(probs) ==
  Returns([k \in DOMAIN probs |-> (2 * probs[k] * Fine + Scale) \div (2 * Scale)])

\* lines 397-400
normalize(probs) ==
  LET total == Total(probs)
  IN IF total = 0 THEN Raises("ZeroDivisionError")
     ELSE Returns([k \in DOMAIN probs |->
                     (2 * probs[k] * Fine + total) \div (2 * total)])

\* the lookups of lines 72-123 and 211-213 that are made with d[k]: one of
\* the keys they need is missing
KeyMissing(params, ctx) ==
  LET batsman_state == model_get_batsman_state(params.batsman_state.thresholds,
                                               ctx.balls_faced)
      Lacks(d, k, fields) == ~Has(d, k) \/ \E x \in fields : ~Has(d[k], x)
  IN \/ Lacks(params.phase_modifiers, ctx.phase, {"boundary_mod"})
     \/ Lacks(params.batsman_state.modifiers, batsman_state, {})
     \/ Lacks(params.tactical_modifiers, ctx.batting_approach,
              {"boundary_mod", "wicket_mod"})
     \/ Lacks(params.bowling_length_modifiers, ctx.bowling_length,
              {"boundary_mod", "wicket_mod", "skill_type", "min_skill"})
     \/ Lacks(params.field_setting_modifiers, ctx.field_setting,
              {"boundary_mod", "wicket_mod"})

\* lines 66-134, with every indexed key present
Pipeline(params, ctx) ==
  LET phase_mod == params.phase_modifiers[ctx.phase]
      p1 == apply_boundary_wicket_mods(params.base_outcomes,
              phase_mod["boundary_mod"], Get(phase_mod, "wicket_mod", Scale),
              Get(phase_mod, "dot_mod", Scale))
      p2 == apply_skill_modifiers(p1,
              calculate_skill_differential(ctx.striker, ctx.bowler))
      p3 == apply_form_modifiers(p2, ctx.striker.form, ctx.bowler.form)
      batsman_state == model_get_batsman_state(params.batsman_state.thresholds,
                                               ctx.balls_faced)
      state_mod == params.batsman_state.modifiers[batsman_state]
      p4 == apply_boundary_wicket_mods(p3, Get(state_mod, "boundary_mod", Scale),
              Get(state_mod, "wicket_mod", Scale), Get(state_mod, "dot_mod", Scale))
      tactic_mod == params.tactical_modifiers[ctx.batting_approach]
      p5 == apply_boundary_wicket_mods(p4, tactic_mod["boundary_mod"],
              tactic_mod["wicket_mod"], Get(tactic_mod, "dot_mod", Scale))
      length_mod == params.bowling_length_modifiers[ctx.bowling_length]
      length_effectiveness == get_bowling_length_effectiveness(ctx.bowler, length_mod)
      p6 == apply_boundary_wicket_mods(p5,
              Mul(length_mod["boundary_mod"], length_effectiveness),
              Mul(length_mod["wicket_mod"], length_effectiveness),
              Get(length_mod, "dot_mod", Scale))
      field_mod == params.field_setting_modifiers[ctx.field_setting]
      p7 == apply_boundary_wicket_mods(p6, field_mod["boundary_mod"],
              field_mod["wicket_mod"], Scale)
      p8 == apply_pressure_modifiers(params, p7, ctx)
  IN IF ctx.target # <<>> THEN apply_chase_pressure(params, p8, ctx) ELSE p8

\* lines 66-134
calculate_probabilities(params, ctx) ==
  IF KeyMissing(params, ctx)
    THEN Raises("KeyError")
    ELSE normalize(Pipeline(params, ctx))

----------------------------------------------------------------------------
(* Parameter tables and contexts calculate_probabilities is called with *)

Mods(b, w, d) == [boundary_mod |-> b, wicket_mod |-> w, dot_mod |-> d]

LengthMods(b, w, d, skill_type, min_skill) ==
  [boundary_mod |-> b, wicket_mod |-> w, dot_mod |-> d,
   skill_type |-> skill_type, min_skill |-> min_skill]

Phases == {"powerplay", "middle", "death"}

Approaches == {"aggressive", "balanced", "cautious"}

Lengths == {"good-length", "short", "yorkers", "full-pitched"}

Fields == {"attacking", "balanced", "defensive", "death-field"}

\* a table with every entry the pipeline can look up
FullParams ==
  [base_outcomes |->
     [dot |-> 350, single |-> 330, two |-> 70, three |-> 10, four |-> 120,
      six |-> 60, wicket |-> 60],
   phase_modifiers |->
     [powerplay |-> Mods(1200, 900, 1000), middle |-> Mods(900, 1000, 1100),
      death |-> Mods(1300, 1200, 900)],
   batsman_state |->
     [thresholds |-> DefaultThresholds,
      modifiers |-> [new |-> Mods(800, 1300, 1100), settling |-> Mods(900, 1100, 1000),
                     set |-> Mods(1100, 900, 900)]],
   tactical_modifiers |->
     [aggressive |-> Mods(1300, 1400, 800), balanced |-> Mods(1000, 1000, 1000),
      cautious |-> Mods(700, 700, 1200)],
   bowling_length_modifiers |->
     [l \in Lengths |->
        IF l = "good-length" THEN LengthMods(900, 1100, 1100, "accuracy", 60)
        ELSE IF l = "short" THEN LengthMods(1200, 1200, 900, "speed", 70)
        ELSE IF l = "yorkers" THEN LengthMods(700, 1300, 1000, "accuracy", 75)
        ELSE LengthMods(1100, 1000, 900, "variation", 50)],
   field_setting_modifiers |->
     [f \in Fields |->
        IF f = "attacking" THEN Mods(1200, 1300, 1000)
        ELSE IF f = "balanced" THEN Mods(1000, 1000, 1000)
        ELSE IF f = "defensive" THEN Mods(800, 800, 1000)
        ELSE Mods(900, 1100, 1000)],
   pressure |->
     [recent_wickets |->
        [k \in {"0", "1", "2", "3"} |->
           IF k = "3" THEN Mods(700, 1500, 1200)
           ELSE IF k = "2" THEN Mods(800, 1300, 1100)
           ELSE IF k = "1" THEN Mods(900, 1100, 1000)
           ELSE Mods(1000, 1000, 1000)],
      bowler_on_roll |->
        [k \in {"2_wickets", "3_wickets"} |->
           IF k = "3_wickets" THEN Mods(800, 1300, 1000) ELSE Mods(900, 1100, 1000)],
      partnership |->
        [k \in {"0_10", "10_20", "20_30", "30_50", "50_75", "75_100", "100_plus"} |->
           IF k = "0_10" THEN Mods(900, 800, 1100)
           ELSE IF k = "50_75" THEN Mods(1100, 1200, 900)
           ELSE Mods(1000, 1100, 1000)],
      required_rate |->
        [k \in {"over_12", "9_to_12", "normal", "low"} |->
           IF k = "over_12" THEN Mods(1300, 1400, 1000)
           ELSE IF k = "9_to_12" THEN Mods(1200, 1200, 1000)
           ELSE IF k = "normal" THEN Mods(1000, 1000, 1000)
           ELSE Mods(900, 900, 1000)]],
   momentum |->
     [by_recent_runs |->
        [k \in {"0_2", "3_7", "8_14", "15_24"} |->
           IF k = "15_24" THEN Mods(1200, 1100, 1000)
           ELSE IF k = "0_2" THEN Mods(900, 1100, 1000)
           ELSE Mods(1000, 1000, 1000)],
      by_recent_boundaries |->
        [k \in {"0", "1", "2", "3_plus"} |->
           IF k = "0" THEN Mods(900, 1000, 1000) ELSE Mods(1100, 1000, 1000)],
      by_recent_dots |->
        [k \in {"0", "1", "2", "3", "4", "5_plus"} |->
           IF k = "5_plus" THEN Mods(1200, 1300, 1000) ELSE Mods(1000, 1000, 1000)]]]

\* a dict without key k
Drop(d, k) == [x \in DOMAIN d \ {k} |-> d[x]]

\* tables that lack one entry, or one field of an entry
SparseParams ==
  { [FullParams EXCEPT !.phase_modifiers = Drop(@, "death")],
    [FullParams EXCEPT !.phase_modifiers["middle"] = Drop(@, "boundary_mod")],
    [FullParams EXCEPT !.phase_modifiers["powerplay"] = Drop(@, "wicket_mod")],
    [FullParams EXCEPT !.batsman_state.modifiers = Drop(@, "new")],
    [FullParams EXCEPT !.batsman_state.modifiers["set"] = Drop(@, "dot_mod")],
    [FullParams EXCEPT !.tactical_modifiers = Drop(@, "cautious")],
    [FullParams EXCEPT !.tactical_modifiers["aggressive"] = Drop(@, "wicket_mod")],
    [FullParams EXCEPT !.tactical_modifiers["aggressive"] = Drop(@, "dot_mod")],
    [FullParams EXCEPT !.bowling_length_modifiers = Drop(@, "short")],
    [FullParams EXCEPT !.bowling_length_modifiers["yorkers"] = Drop(@, "boundary_mod")],
    [FullParams EXCEPT !.field_setting_modifiers = Drop(@, "defensive")],
    [FullParams EXCEPT !.field_setting_modifiers["attacking"] = Drop(@, "wicket_mod")],
    [FullParams EXCEPT !.pressure = Drop(@, "partnership")],
    [FullParams EXCEPT !.pressure["recent_wickets"] = Drop(@, "3")],
    [FullParams EXCEPT !.pressure["required_rate"] = Drop(@, "over_12")],
    [FullParams EXCEPT !.momentum = Drop(@, "by_recent_dots")],
    [FullParams EXCEPT !.momentum["by_recent_runs"] = Drop(@, "0_2")] }

\* the players of tests/test_match_engine.py, and a weaker and a stronger one
Batter(technique, power, timing, temperament, form) ==
  [technique |-> technique, power |-> power, timing |-> timing,
   temperament |-> temperament, form |-> form]

Bowler(speed, accuracy, variation, stamina, form) ==
  [speed |-> speed, accuracy |-> accuracy, variation |-> variation,
   stamina |-> stamina, form |-> form]

Strikers == {Batter(75, 70, 80, 75, 5), Batter(0, 0, 0, 0, -20)}

Bowlers == {Bowler(80, 75, 65, 70, 0), Bowler(100, 100, 100, 100, 20)}

\* the match situation of a context: overs (in sixths), target, runs, and
\* the figures the pressure and momentum buckets are chosen by
Situation(overs, tgt, runs, partnership, recent_wickets, bowler_wickets, recent_runs, recent_boundaries, recent_dots) ==
  [overs |-> overs, target |-> tgt, current_runs |-> runs,
   partnership_runs |-> partnership, recent_wickets |-> recent_wickets,
   bowler_wickets |-> bowler_wickets, recent_runs |-> recent_runs,
   recent_boundaries |-> recent_boundaries, recent_dots |-> recent_dots]

Situations ==
  { Situation(0, <<>>, 0, 0, 0, 0, 0, 0, 0),
    Situation(60, <<>>, 85, 55, 3, 3, 16, 3, 5),
    Situation(60, <<150>>, 85, 25, 1, 2, 8, 1, 2),
    Situation(114, <<150>>, 120, 5, 2, 0, 3, 0, 4),
    Situation(120, <<150>>, 149, 100, 0, 1, 0, 2, 1) }

\* a SimulationContext
SimulationContext(striker, bowler, phase, balls_faced, approach, length, field, sit) ==
  [striker |-> striker, bowler |-> bowler, phase |-> phase, overs |-> sit.overs,
   target |-> sit.target, current_runs |-> sit.current_runs,
   balls_faced |-> balls_faced, batting_approach |-> approach,
   bowling_length |-> length, field_setting |-> field,
   partnership_runs |-> sit.partnership_runs, recent_wickets |-> sit.recent_wickets,
   bowler_wickets |-> sit.bowler_wickets, recent_runs |-> sit.recent_runs,
   recent_boundaries |-> sit.recent_boundaries, recent_dots |-> sit.recent_dots]

Contexts ==
  { SimulationContext(striker, bowler, phase, balls_faced, approach, length, field, sit) :
      striker \in Strikers, bowler \in Bowlers, phase \in Phases,
      balls_faced \in {0, 6, 20}, approach \in Approaches, length \in Lengths,
      field \in Fields, sit \in Situations }

\* match_engine.py line 116: simulate_ball asks for the probabilities
CalculateProbabilitiesCall(tables) ==
  /\ call = NoCall
  /\ \E params \in tables, ctx \in Contexts :
       call' = [fn |-> "calculate_probabilities", args |-> <<params, ctx>>,
                result |-> calculate_probabilities(params, ctx)]
  /\ UNCHANGED <<batting_team, target, innings_state, pc, loc, ret, ncalls,
                 passed_in, batter_heap, bowler_heap>>

\* the table is the complete one
NextNorm == CalculateProbabilitiesCall({FullParams})

SpecNorm == InitFn /\ [][NextNorm]_vars

\* the table may lack an entry
NextSparse == CalculateProbabilitiesCall({FullParams} \cup SparseParams)

SpecSparse == InitFn /\ [][NextSparse]_vars

(* C12: calculate_probabilities returns values for the seven classes dot,   *)
(* single, two, three, four, six, wicket whose sum is within 1e-4 of 1.     *)
C12_Normalization ==
  call.fn = "calculate_probabilities" =>
    /\ call.result.raised = "none"
    /\ DOMAIN call.result.probs = Classes
    /\ Total(call.result.probs) >= Fine - Fine \div 10000
    /\ Total(call.result.probs) <= Fine + Fine \div 10000

\* a chase in the death overs, where the stages have moved the boundary and
\* wicket rates away from the base table's
C12_Witness ==
  /\ call.fn = "calculate_probabilities"
  /\ call.args[2].target # <<>> /\ call.args[2].phase = "death"
  /\ call.args[2].batting_approach = "aggressive"
  /\ call.result.raised = "none"
  /\ call.result.probs["four"] > 20000
  /\ call.result.probs["wicket"] > 10000

----------------------------------------------------------------------------
(* Sparse configuration *)

ModFields == {"boundary_mod", "wicket_mod", "dot_mod"}

\* an entry with multiplier 1.0 in every field it lacks
FillMods(e, fields) ==
  [f \in DOMAIN e \cup fields |-> IF Has(e, f) THEN e[f] ELSE Scale]

\* a table with a neutral entry for every key it lacks
FillTable(d, keys, fields) ==
  [k \in DOMAIN d \cup keys |->
     FillMods(IF Has(d, k) THEN d[k] ELSE NoMods, fields)]

\* the bucket tables of a group (pressure, momentum), filled likewise
FillGroup(g, shape) ==
  [t \in DOMAIN g \cup DOMAIN shape |->
     FillTable(IF Has(g, t) THEN g[t] ELSE NoMods,
               IF Has(shape, t) THEN DOMAIN shape[t] ELSE {}, ModFields)]

\* a length entry that lacks its skill requirement asks for the skill the
\* bowler has, which makes the length effectiveness 1.0
FillLength(d, bowler) ==
  [l \in DOMAIN d \cup Lengths |->
     LET e == FillMods(IF Has(d, l) THEN d[l] ELSE NoMods, ModFields)
     IN IF Has(e, "skill_type") /\ Has(e, "min_skill") THEN e
        ELSE [f \in DOMAIN e \cup {"skill_type", "min_skill"} |->
                IF f = "skill_type" THEN "accuracy"
                ELSE IF f = "min_skill" THEN bowler.accuracy
                ELSE e[f]]]

\* the table with multiplier 1.0 wherever it is sparse
Filled(params, ctx) ==
  [params EXCEPT
     !.phase_modifiers = FillTable(@, Phases, ModFields),
     !.batsman_state.modifiers = FillTable(@, {"new", "settling", "set"}, ModFields),
     !.tactical_modifiers = FillTable(@, Approaches, ModFields),
     !.bowling_length_modifiers = FillLength(@, ctx.bowler),
     !.field_setting_modifiers = FillTable(@, Fields, ModFields),
     !.pressure = FillGroup(@, FullParams.pressure),
     !.momentum = FillGroup(@, FullParams.momentum)]

(* C11: calculate_probabilities never fails because of sparse configuration: *)
(* a table that lacks the entry for the context's phase, batsman state,      *)
(* batting approach, bowling length, field setting, pressure bucket or       *)
(* momentum bucket, or a boundary_mod/wicket_mod/dot_mod field, gives the    *)
(* distribution of the table with multiplier 1.0 in that place.              *)
C11_SparseConfigNeverFails ==
  call.fn = "calculate_probabilities" =>
    /\ call.result.raised = "none"
    /\ call.result =
         calculate_probabilities(Filled(call.args[1], call.args[2]), call.args[2])

----------------------------------------------------------------------------
(* MatchEngine.simulate_ball: the SimulationContext it builds for a ball *)

\* match_engine.py line 434: recent_balls holds the last six ball events
RecentWindow == 6

\* the outcomes a recent ball may have had
RecentOutcomes == {RunsOutcome(0), RunsOutcome(1), RunsOutcome(4), RunsOutcome(6)}

\* the lists innings_state.recent_balls may hold, as the balls' outcomes
RecentBalls == UNION {[1..n -> RecentOutcomes] : n \in 0..RecentWindow}

\* an innings state with bowler P, the striker's and the bowler's figures,
\* and recent_balls as the list of the outcomes of its ball events
StateWithRecent(st, recent_balls) ==
  [st EXCEPT !.recent_balls = recent_balls]

\* lines 90-93: the wickets of the last three overs; FallOfWicket.overs is
\* in tenths and the overs value in sixths
RecentWickets(fow, sixths) ==
  Cardinality({i \in 1..Len(fow) : 6 * fow[i].overs >= 10 * sixths - 180})

\* lines 79-116: the context simulate_ball builds from the innings state st
\* (its stats dicts holding the figures themselves) for striker and bowler
BuildContext(striker, bowler, st, tgt, approach, length, field) ==
  LET overs == ContextOvers(st)
      batter_stats == Get(st.batter_stats, striker.id, BatterStats)
      fow == st.fall_of_wickets
      partnership_runs == st.runs - (IF fow # <<>> THEN fow[Len(fow)].runs ELSE 0)
      bowler_stats == Get(st.bowler_stats, bowler.id, BowlerStats)
  IN SimulationContext(striker.stats, bowler.stats, get_phase(overs),
       batter_stats.balls, approach, length, field,
       Situation(overs, tgt, st.runs, partnership_runs,
                 RecentWickets(fow, overs), bowler_stats.wickets, 0, 0, 0))

\* probability_model.py lines 310-318, 327-334, 343-355: the keys of the
\* momentum buckets chosen for a context
MomentumBuckets(ctx) ==
  [by_recent_runs |->
     IF ctx.recent_runs >= 15 THEN "15_24"
     ELSE IF ctx.recent_runs >= 8 THEN "8_14"
     ELSE IF ctx.recent_runs >= 3 THEN "3_7"
     ELSE "0_2",
   by_recent_boundaries |->
     IF ctx.recent_boundaries >= 3 THEN "3_plus"
     ELSE IF ctx.recent_boundaries = 2 THEN "2"
     ELSE IF ctx.recent_boundaries = 1 THEN "1"
     ELSE "0",
   by_recent_dots |->
     IF ctx.recent_dots >= 5 THEN "5_plus"
     ELSE IF ctx.recent_dots = 4 THEN "4"
     ELSE IF ctx.recent_dots = 3 THEN "3"
     ELSE IF ctx.recent_dots = 2 THEN "2"
     ELSE IF ctx.recent_dots = 1 THEN "1"
     ELSE "0"]

\* the striker and the bowler of the tests, as players with an id
TestStriker == [id |-> "A", stats |-> Batter(75, 70, 80, 75, 5)]

TestBowler == [id |-> "P", stats |-> Bowler(80, 75, 65, 70, 0)]

\* match_engine.py lines 296-304 and match.py lines 56-66: simulate_ball is
\* called on an innings state whose recent_balls holds up to six balls
BuildContextCall ==
  /\ call = NoCall
  /\ \E recent_balls \in RecentBalls :
       LET st == StateWithRecent(InningsState(0, 0, 1, 0, <<"A", "B">>, <<>>),
                                 recent_balls)
           ctx == BuildContext(TestStriker, TestBowler, st, <<>>,
                               "balanced", "good-length", "balanced")
       IN call' = [fn |-> "simulate_ball", args |-> <<st>>,
                   result |-> [ctx |-> ctx, buckets |-> MomentumBuckets(ctx)]]
  /\ UNCHANGED <<batting_team, target, innings_state, pc, loc, ret, ncalls,
                 passed_in, batter_heap, bowler_heap>>

NextContext == BuildContextCall

SpecContext == InitFn /\ [][NextContext]_vars

\* the runs, boundaries and dots of a list of outcomes
RECURSIVE SumRuns(_)
SumRuns(balls) ==
  IF balls = <<>> THEN 0 ELSE balls[1].runs + SumRuns(Tail(balls))

CountBoundaries(balls) ==
  Cardinality({i \in 1..Len(balls) : balls[i].type = "runs" /\ balls[i].runs \in {4, 6}})

CountDots(balls) ==
  Cardinality({i \in 1..Len(balls) : balls[i].type = "runs" /\ balls[i].runs = 0})

(* C21: the context built for a ball carries the runs, boundaries and dots   *)
(* of the trailing six balls of the innings state, and the momentum stage    *)
(* chooses the buckets of those counts.                                      *)
C21_MomentumContext ==
  call.fn = "simulate_ball" =>
    LET recent_balls == call.args[1].recent_balls
        ctx == call.result.ctx
        counts == [recent_runs |-> SumRuns(recent_balls),
                   recent_boundaries |-> CountBoundaries(recent_balls),
                   recent_dots |-> CountDots(recent_balls)]
    IN /\ ctx.recent_runs = counts.recent_runs
       /\ ctx.recent_boundaries = counts.recent_boundaries
       /\ ctx.recent_dots = counts.recent_dots
       /\ call.result.buckets = MomentumBuckets(counts)

----------------------------------------------------------------------------
(* MatchEngine._roll_outcome, _create_outcome and _check_boundary_save.  A  *)
(* draw of random.random() is a number of thousandths, 0..999; a            *)
(* probability handed over by calculate_probabilities is in units of 1e-5.  *)

\* match_engine.py line 159: the order the classes are walked in
ClassOrder == <<"dot", "single", "two", "three", "four", "six", "wicket">>

\* lines 158-160: cumulative after the i-th class of the walk
RECURSIVE Cumulative(_, _)
Cumulative(probs, i) ==
  IF i = 0 THEN 0 ELSE Cumulative(probs, i - 1) + Get(probs, ClassOrder[i], 0)

\* Rescale leaving the draw as it was after the extras
RescaleNot(rand, wide_chance, noball_chance) ==
  [num |-> rand - wide_chance - noball_chance, den |-> Scale]

\* lines 154-156: the draw left after the extras, over what remains of the
\* probability space when that is positive
Rescale(rand, wide_chance, noball_chance) ==
  LET remaining == Scale - wide_chance - noball_chance
  IN [num |-> rand - wide_chance - noball_chance,
      den |-> IF remaining > 0 THEN remaining ELSE Scale]

\* line 161: rand < cumulative, for a rescaled draw x
Below(x, cumulative) == x.num * Fine < cumulative * x.den

\* lines 131-165, up to the class drawn: wide, noball, one of the seven
\* classes, or none when the walk ends without a class
roll_outcome(probs, rand, wide_chance, noball_chance) ==
  IF rand < wide_chance THEN "wide"
  ELSE IF rand - wide_chance < noball_chance THEN "noball"
  ELSE
    LET x == Rescale(rand, wide_chance, noball_chance)
        hit == {i \in 1..Len(ClassOrder) : Below(x, Cumulative(probs, i))}
    IN IF hit = {} THEN "none"
       ELSE ClassOrder[CHOOSE i \in hit : \A j \in hit : i <= j]

\* a fielder: schemas/player.py FieldingSkills
Fielder(athleticism, ground) == [athleticism |-> athleticism, ground |-> ground]

RECURSIVE SumOf(_, _)
SumOf(team, field) ==
  IF team = <<>> THEN 0 ELSE team[1][field] + SumOf(Tail(team), field)

\* lines 198-214: the chance of a save in units of 1e-5, 0 for an empty team;
\* (avg_athleticism - 50) / 200 + (avg_ground - 50) / 400 is
\* (2 * (sum_athleticism - 50 n) + (sum_ground - 50 n)) / (400 n)
save_chance(fielding_team, max_chance) ==
  IF fielding_team = <<>> THEN 0
  ELSE
    LET count == Len(fielding_team)
        raw == 2 * (SumOf(fielding_team, "athleticism") - 50 * count)
                 + (SumOf(fielding_team, "ground") - 50 * count)
        chance == (raw * Fine) \div (400 * count)
        floor == IF chance > 0 THEN chance ELSE 0
    IN IF max_chance < floor THEN max_chance ELSE floor

\* lines 196-216: random.random() < save_chance, for a draw in thousandths
check_boundary_save(fielding_team, max_chance, rand) ==
  /\ fielding_team # <<>>
  /\ rand * (Fine \div Scale) < save_chance(fielding_team, max_chance)

\* an outcome and its boundary_saved flag
Created(outcome, boundary_saved) ==
  [outcome |-> outcome, boundary_saved |-> boundary_saved]

\* create_outcome with a save tried on a six as well
create_outcome_any_boundary(outcome_type, saved, rand) ==
  IF outcome_type = "dot" THEN Created(RunsOutcome(0), FALSE)
  ELSE IF outcome_type = "single" THEN Created(RunsOutcome(1), FALSE)
  ELSE IF outcome_type = "two" THEN Created(RunsOutcome(2), FALSE)
  ELSE IF outcome_type = "three" THEN Created(RunsOutcome(3), FALSE)
  ELSE IF outcome_type \in {"four", "six"}
    THEN IF saved
           THEN Created(RunsOutcome(IF rand < 700 THEN 2 ELSE 3), TRUE)
           ELSE Created(RunsOutcome(IF outcome_type = "four" THEN 4 ELSE 6), FALSE)
  ELSE IF outcome_type = "wicket" THEN Created(WicketOutcome, FALSE)
  ELSE Created(RunsOutcome(0), FALSE)

\* lines 167-194: saved is what _check_boundary_save returned, rand the draw
\* that splits a saved boundary into 2 or 3 runs
create_outcome(outcome_type, saved, rand) ==
  IF outcome_type = "dot" THEN Created(RunsOutcome(0), FALSE)
  ELSE IF outcome_type = "single" THEN Created(RunsOutcome(1), FALSE)
  ELSE IF outcome_type = "two" THEN Created(RunsOutcome(2), FALSE)
  ELSE IF outcome_type = "three" THEN Created(RunsOutcome(3), FALSE)
  ELSE IF outcome_type = "four"
    THEN IF saved
           THEN Created(RunsOutcome(IF rand < 700 THEN 2 ELSE 3), TRUE)
           ELSE Created(RunsOutcome(4), FALSE)
  ELSE IF outcome_type = "six" THEN Created(RunsOutcome(6), FALSE)
  ELSE IF outcome_type = "wicket" THEN Created(WicketOutcome, FALSE)
  ELSE Created(RunsOutcome(0), FALSE)

\* lines 131-165: the outcome of a ball, from the three draws
RollAndCreate(probs, chances, fielding_team, max_chance, rand, save_rand, runs_rand) ==
  LET class == roll_outcome(probs, rand, chances.wide_chance, chances.noball_chance)
  IN IF class \in {"wide", "noball"} THEN Created(ExtraOutcome(class), FALSE)
     ELSE IF class = "none" THEN Created(RunsOutcome(0), FALSE)
     ELSE create_outcome(class,
            check_boundary_save(fielding_team, max_chance, save_rand), runs_rand)

\* the distributions handed to _roll_outcome: those of the complete table
\* for the first ball of an innings and for a chase at the death, and one
\* whose values fall short of 1
RollTables ==
  { calculate_probabilities(FullParams, ctx).probs :
      ctx \in { SimulationContext(Batter(75, 70, 80, 75, 5), Bowler(80, 75, 65, 70, 0),
                  phase, 0, "balanced", "good-length", "balanced", sit) :
                phase \in {"powerplay", "death"},
                sit \in {s \in Situations : s.overs \in {0, 114}} } }
    \cup { [k \in Classes |-> IF k \in {"dot", "single"} THEN 40000 ELSE 3960] }

\* params["extras"]: the defaults of lines 138-139, no extras, and more
ExtraChances ==
  { [wide_chance |-> 20, noball_chance |-> 10],
    [wide_chance |-> 0, noball_chance |-> 0],
    [wide_chance |-> 100, noball_chance |-> 50] }

\* the values of random.random() tried, in thousandths
Draws == {25 * k : k \in 0..39} \cup {19, 20, 29, 30, 99, 149, 151, 999}

SaveDraws == {0, 100, 299, 300, 999}

RunsDraws == {0, 699, 700}

FieldingTeams ==
  { <<>>,
    <<Fielder(30, 40), Fielder(50, 50)>>,
    <<Fielder(40, 70), Fielder(40, 70)>>,
    <<Fielder(70, 60), Fielder(90, 80)>>,
    <<Fielder(100, 100)>> }

\* params["fielding"]["boundary_save"]["max_chance"], in units of 1e-5: the
\* default of line 210, and a lower cap
MaxChances == {30000, 10000}

\* match_engine.py line 119: simulate_ball rolls the outcome of a ball
RollOutcomeCall ==
  /\ call = NoCall
  /\ \E probs \in RollTables, chances \in ExtraChances, rand \in Draws,
        fielding_team \in FieldingTeams, max_chance \in MaxChances,
        save_rand \in SaveDraws, runs_rand \in RunsDraws :
       call' = [fn |-> "_roll_outcome",
                args |-> [probs |-> probs, chances |-> chances, rand |-> rand,
                          fielding_team |-> fielding_team, max_chance |-> max_chance,
                          save_rand |-> save_rand, runs_rand |-> runs_rand],
                result |->
                  [class |-> roll_outcome(probs, rand, chances.wide_chance,
                                          chances.noball_chance),
                   save_chance |-> save_chance(fielding_team, max_chance),
                   created |-> RollAndCreate(probs, chances, fielding_team, max_chance,
                                             rand, save_rand, runs_rand)]]
  /\ UNCHANGED <<batting_team, target, innings_state, pc, loc, ret, ncalls,
                 passed_in, batter_heap, bowler_heap>>

NextRoll == RollOutcomeCall

SpecRoll == InitFn /\ [][NextRoll]_vars

\* the outcome of a class, a boundary save apart
OutcomeOfClass(class) ==
  CASE class = "dot" -> RunsOutcome(0)
    [] class = "single" -> RunsOutcome(1)
    [] class = "two" -> RunsOutcome(2)
    [] class = "three" -> RunsOutcome(3)
    [] class = "four" -> RunsOutcome(4)
    [] class = "six" -> RunsOutcome(6)
    [] class = "wicket" -> WicketOutcome
    [] class = "none" -> RunsOutcome(0)
    [] OTHER -> ExtraOutcome(class)

(* C22: for a draw r with wide chance w and no-ball chance n, r < w gives a  *)
(* wide of 1 run; otherwise r - w < n gives a no-ball of 1 run; otherwise    *)
(* the draw is rescaled to (r - w - n) / (1 - w - n) and the class is the    *)
(* first of dot, single, two, three, four, six, wicket whose cumulative      *)
(* probability exceeds it, a dot when there is none; one outcome results.    *)
C22_OutcomeResolution ==
  call.fn = "_roll_outcome" =>
    LET a == call.args
        w == a.chances.wide_chance
        n == a.chances.noball_chance
        class == call.result.class
        outcome == call.result.created.outcome
        Before(c) == {ClassOrder[j] : j \in {j \in 1..7 :
                        \E i \in 1..7 : ClassOrder[i] = c /\ j < i}}
        Sum(S) == Cumulative([k \in Classes |-> IF k \in S THEN a.probs[k] ELSE 0], 7)
        \* (r - w - n) / (1 - w - n) < s / Fine
        Under(s) == (a.rand - w - n) * Fine < s * (Scale - w - n)
    IN /\ a.rand < w => outcome = ExtraOutcome("wide")
       /\ (a.rand >= w /\ a.rand - w < n) => outcome = ExtraOutcome("noball")
       /\ (a.rand >= w /\ a.rand - w >= n) =>
            /\ \A c \in Classes :
                 class = c <=> (~Under(Sum(Before(c))) /\ Under(Sum(Before(c) \cup {c})))
            /\ class \in Classes \cup {"none"}
            /\ class = "none" => outcome = RunsOutcome(0)
            /\ outcome.type \in {"runs", "wicket"}
            /\ ~call.result.created.boundary_saved => outcome = OutcomeOfClass(class)

\* a draw of 0.151 with chances 0.10 and 0.05: just past the extras, rescaled
\* to 0.001/0.85, a dot
C22_Witness ==
  /\ call.fn = "_roll_outcome"
  /\ call.args.chances = [wide_chance |-> 100, noball_chance |-> 50]
  /\ call.args.rand = 151
  /\ call.result.class = "dot"
  /\ call.result.created.outcome = RunsOutcome(0)

(* C25: an outcome flagged boundary_saved has 2 or 3 runs and comes only     *)
(* from a drawn four; the save chance lies in 0..cap, and is 0 when the      *)
(* fielding team is empty or 2 * (average athleticism - 50) + (average       *)
(* ground fielding - 50) <= 0, and then a drawn four yields 4 runs.          *)
C25_BoundarySave ==
  call.fn = "_roll_outcome" =>
    LET team == call.args.fielding_team
        created == call.result.created
        count == Len(team)
        \* count times 2 * (avg_athleticism - 50) + (avg_ground - 50)
        edge == 2 * (SumOf(team, "athleticism") - 50 * count)
                  + (SumOf(team, "ground") - 50 * count)
    IN /\ created.boundary_saved =>
            /\ created.outcome.type = "runs"
            /\ created.outcome.runs \in {2, 3}
            /\ call.result.class = "four"
       /\ call.result.save_chance \in 0..call.args.max_chance
       /\ (team = <<>> \/ edge <= 0) =>
            /\ call.result.save_chance = 0
            /\ call.result.class = "four" =>
                 created = Created(RunsOutcome(4), FALSE)

\* a four is drawn and good fielders pull it back to three: the chance is
\* capped at 0.30 and the save draw is below it
C25_Witness ==
  /\ call.fn = "_roll_outcome"
  /\ call.result.class = "four"
  /\ call.args.fielding_team = <<Fielder(100, 100)>>
  /\ call.result.save_chance = 30000 /\ call.args.save_rand = 299
  /\ call.result.created = Created(RunsOutcome(3), TRUE)

----------------------------------------------------------------------------
(* No balls remaining *)

\* probability_model.py lines 129-130: the chase-pressure stage is run on the
\* context of a ball of a chase; the context's overs value is overs + balls / 6
ChasePressureCall ==
  /\ call = NoCall
  /\ \E overs \in {18, 19, 20, 21}, balls \in 0..5, runs \in 0..MaxScore,
        tgt \in 1..MaxTarget :
       LET st == InningsState(runs, 0, overs, balls, <<"A", "B">>, <<>>)
           ctx == BuildContext(TestStriker, TestBowler, st, <<tgt>>,
                               "balanced", "good-length", "balanced")
           probs == FullParams.base_outcomes
       IN call' = [fn |-> "_apply_chase_pressure", args |-> <<probs, st, tgt>>,
                   result |-> apply_chase_pressure(FullParams, probs, ctx)]
  /\ UNCHANGED <<batting_team, target, innings_state, pc, loc, ret, ncalls,
                 passed_in, batter_heap, bowler_heap>>

NextEdge ==
  \/ ChasePressureCall
  \/ GetPressureLevelCall

SpecEdge == InitFn /\ [][NextEdge]_vars

(* C23: with a target set and (20 - overs) * 6 - balls <= 0, the            *)
(* chase-pressure stage returns the distribution unchanged and              *)
(* get_pressure_level returns high; neither divides by the balls remaining. *)
C23_NoBallsRemaining ==
  /\ call.fn = "_apply_chase_pressure" =>
       LET st == call.args[2]
       IN (20 - st.overs) * 6 - st.balls <= 0 => call.result = call.args[1]
  /\ call.fn = "get_pressure_level" =>
       LET st == call.args[1]
       IN (call.args[2] # <<>> /\ (20 - st.overs) * 6 - st.balls <= 0)
            => call.result = "high"

\* twenty overs are bowled and the target is still ahead
C23_Witness ==
  /\ call.fn = "_apply_chase_pressure"
  /\ call.args[2].overs = 20 /\ call.args[2].balls = 0
  /\ call.args[2].runs < call.args[3]
  /\ call.result = FullParams.base_outcomes

----------------------------------------------------------------------------
(* Termination of simulate_over *)

\* SpecLive: the cap on team runs and on extras in a call.  The cap on
\* extras is the assumption that wides and no-balls do not recur forever.
LiveMaxRuns == 2

LiveMaxExtras == 1

NextLive ==
  \/ Request(1, 1)
  \/ Bowl(1, LiveMaxRuns, LiveMaxExtras)
  \/ NoStriker(1)

\* a call that has been entered keeps running: the loop body is straight-line
\* code, so a pass of the loop that can be made is made
SpecLive == Init /\ [][NextLive]_vars /\ WF_vars(Bowl(1, LiveMaxRuns, LiveMaxExtras)) /\ WF_vars(NoStriker(1))

(* C24: every simulate_over call terminates.  While it runs it has bowled    *)
(* at most six legal deliveries and the innings is not complete, and it      *)
(* returns at the sixth legal delivery or as soon as the innings is          *)
(* complete.                                                                 *)
C24_Termination ==
  /\ [](\A c \in Callers :
          /\ pc[c] = "loop" => loc[c].ball_number < BALLS_PER_OVER
                                 /\ ~loc[c].innings_complete
          /\ InCall(c) => loc[c].ball_number <= BALLS_PER_OVER)
  /\ \A c \in Callers : pc[c] = "loop" ~> pc[c] = "done"

\* the call returned after a wide and six legal deliveries, the innings open
C24_Witness ==
  /\ Returned(1) /\ ~ret[1].innings_complete
  /\ loc[1].balls = 7 /\ loc[1].ball_number = BALLS_PER_OVER
  /\ loc[1].outcome.type = "runs"

----------------------------------------------------------------------------
(* Bowler recommendation (api/v1/match.py): the /bowler/recommend endpoint  *)
(* and the recommendation that follows an over.  A score is a float in the  *)
(* source; the model keeps it in thousandths of a point, which is exact.    *)

\* a player of the bowling side: schemas/player.py PlayerStats
Player(id, role, bowling_style, bowling, form) ==
  [id |-> id, role |-> role, bowling_style |-> bowling_style,
   bowling |-> bowling, form |-> form]

\* match.py lines 376-381: the spell patterns used when the table has none,
\* in thousandths
PaceProfile == [powerplay |-> 495, middle |-> 274, death |-> 231]

SpinProfile == [powerplay |-> 228, middle |-> 659, death |-> 113]

\* match.py lines 363-425; state.bowler_stats holds the figures themselves
simple_bowler_score(bowler, state, phase) ==
  LET is_pace == bowler.bowling_style \in {"right-arm-fast", "left-arm-fast"}
      is_spin == bowler.bowling_style \in {"off-spin", "leg-spin", "left-arm-spin"}
      phase_bonus == IF is_pace THEN PaceProfile[phase] * 50
                     ELSE IF is_spin THEN SpinProfile[phase] * 50
                     ELSE 0
      stats_bonus ==
        IF Has(state.bowler_stats, bowler.id)
          THEN LET bowler_stats == state.bowler_stats[bowler.id]
               IN bowler_stats.wickets * 10000
                    + (IF bowler_stats.overs > 0
                         THEN IF bowler_stats.runs < 6 * bowler_stats.overs THEN 15000
                              ELSE IF bowler_stats.runs > 10 * bowler_stats.overs
                                THEN -15000
                              ELSE 0
                         ELSE 0)
          ELSE 0
      \* overall_skill in hundredths of a point
      overall_skill == 20 * bowler.bowling.speed + 35 * bowler.bowling.accuracy
                         + 25 * bowler.bowling.variation + 20 * bowler.bowling.stamina
  IN 50000 + phase_bonus + stats_bonus + (overall_skill - 5500) * 3
       + bowler.form * 500

\* the overs a bowler has bowled, 0 without figures (lines 266-267, 342-343)
OversBowled(state, id) ==
  IF Has(state.bowler_stats, id) THEN state.bowler_stats[id].overs ELSE 0

\* lines 287-288: sort by score, highest first; Python's sort is stable
RECURSIVE SortByScore(_, _, _)
SortByScore(bowlers, state, phase) ==
  IF bowlers = <<>> THEN <<>>
  ELSE
    LET Score(i) == simple_bowler_score(bowlers[i], state, phase)
        best == CHOOSE i \in 1..Len(bowlers) :
                  \A j \in 1..Len(bowlers) :
                    Score(j) < Score(i) \/ (Score(j) = Score(i) /\ i <= j)
        rest == [k \in 1..Len(bowlers) - 1 |->
                   IF k < best THEN bowlers[k] ELSE bowlers[k + 1]]
    IN <<bowlers[best]>> \o SortByScore(rest, state, phase)

Ids(bowlers) == [i \in 1..Len(bowlers) |-> bowlers[i].id]

\* what /bowler/recommend answers
Recommended(id, alternatives) ==
  [http |-> 200, recommended_bowler_id |-> id, alternatives |-> alternatives]

NoEligibleBowlers == [http |-> 400, recommended_bowler_id |-> NoPlayer, alternatives |-> <<>>]

\* recommend_bowler falling back on every available bowler
recommend_bowler_anyone(available_bowlers, state, last_bowler_id) ==
  LET phase == get_phase(6 * state.overs)
      Fresh(b) == b.id # last_bowler_id /\ OversBowled(state, b.id) < 4
      first == SelectSeq(available_bowlers, Fresh)
      eligible == IF first = <<>> THEN available_bowlers ELSE first
  IN IF eligible = <<>> THEN NoEligibleBowlers
     ELSE LET analyses == Ids(SortByScore(eligible, state, phase))
          IN Recommended(analyses[1], SubSeq(analyses, 2, Min(4, Len(analyses))))

\* match.py lines 249-304
recommend_bowler(available_bowlers, state, last_bowler_id) ==
  LET phase == get_phase(6 * state.overs)
      Fresh(b) == b.id # last_bowler_id /\ OversBowled(state, b.id) < 4
      NotMaxed(b) == OversBowled(state, b.id) < 4
      first == SelectSeq(available_bowlers, Fresh)
      eligible == IF first = <<>> THEN SelectSeq(available_bowlers, NotMaxed) ELSE first
  IN IF eligible = <<>> THEN NoEligibleBowlers
     ELSE LET analyses == Ids(SortByScore(eligible, state, phase))
          IN Recommended(analyses[1], SubSeq(analyses, 2, Min(4, Len(analyses))))

\* match.py lines 326-360: the id recommended, NoPlayer for None
recommend_next_bowler(bowling_team, updated_state, last_bowler_id) ==
  LET phase == get_phase(6 * updated_state.overs)
      Eligible(b) == /\ b.role \in {"bowler", "allrounder"}
                     /\ b.id # last_bowler_id
                     /\ OversBowled(updated_state, b.id) < 4
      eligible == SelectSeq(bowling_team, Eligible)
      Score(i) == simple_bowler_score(eligible[i], updated_state, phase)
      \* the first bowler no later one beats, when its score is above -1
      best == {i \in 1..Len(eligible) :
                 /\ Score(i) > -1000
                 /\ \A j \in 1..Len(eligible) :
                      Score(j) < Score(i) \/ (Score(j) = Score(i) /\ i <= j)}
  IN IF best = {} THEN NoPlayer ELSE eligible[CHOOSE i \in best : TRUE].id

\* a bowling side: two quick bowlers, two spinners and a keeper
BowlingSide ==
  << Player("P", "bowler", "right-arm-fast", Bowler(80, 75, 65, 70, 0), 0),
     Player("Q", "allrounder", "off-spin", Bowler(60, 70, 80, 60, 0), 5),
     Player("R", "bowler", "left-arm-fast", Bowler(85, 60, 50, 75, 0), -5),
     Player("S", "keeper", "none", Bowler(20, 20, 20, 20, 0), 0) >>

\* the figures a bowler may have: none, or a number of completed overs
SpellOvers == {0, 3, 4, 5}

BowlerFiguresOf(overs) == [overs |-> overs, runs |-> 7 * overs, wickets |-> overs \div 2, dots |-> 0]

\* innings states with figures for some of the bowlers of the side
RecommendStates ==
  { [InningsState(40, 2, overs, 0, <<"A", "B">>, <<>>) EXCEPT !.bowler_stats = figures] :
      overs \in {3, 10, 17},
      figures \in UNION {[ids -> {BowlerFiguresOf(o) : o \in SpellOvers}] :
                           ids \in SUBSET {"P", "Q", "R"}} }

\* the lists of available bowlers a request may name
AvailableBowlers ==
  { BowlingSide, SubSeq(BowlingSide, 1, 2), SubSeq(BowlingSide, 1, 1), <<>> }

\* match.py lines 249-323: a request to /bowler/recommend
RecommendBowlerCall ==
  /\ call = NoCall
  /\ \E available_bowlers \in AvailableBowlers, state \in RecommendStates,
        last_bowler_id \in {"P", "Q", NoPlayer} :
       call' = [fn |-> "recommend_bowler",
                args |-> <<available_bowlers, state, last_bowler_id>>,
                result |-> recommend_bowler(available_bowlers, state, last_bowler_id)]
  /\ UNCHANGED <<batting_team, target, innings_state, pc, loc, ret, ncalls,
                 passed_in, batter_heap, bowler_heap>>

\* match.py lines 201-206: the recommendation that follows an over bowled by
\* last_bowler_id
RecommendNextBowlerCall ==
  /\ call = NoCall
  /\ \E state \in RecommendStates, last_bowler_id \in {"P", "Q", "R"} :
       call' = [fn |-> "_recommend_next_bowler",
                args |-> <<BowlingSide, state, last_bowler_id>>,
                result |-> recommend_next_bowler(BowlingSide, state, last_bowler_id)]
  /\ UNCHANGED <<batting_team, target, innings_state, pc, loc, ret, ncalls,
                 passed_in, batter_heap, bowler_heap>>

NextRecommend ==
  \/ RecommendBowlerCall
  \/ RecommendNextBowlerCall

SpecRecommend == InitFn /\ [][NextRecommend]_vars

(* C26: /bowler/recommend never returns a bowler who has bowled 4 overs or   *)
(* more, and rejects the request when no available bowler has fewer than 4;  *)
(* the recommendation after an over never names a bowler with 4 overs or     *)
(* more, nor the bowler who has just bowled.                                 *)
C26_BowlerRecommendation ==
  /\ call.fn = "recommend_bowler" =>
       LET available == Range(Ids(call.args[1]))
           state == call.args[2]
           r == call.result
           open == {id \in available : OversBowled(state, id) < 4}
       IN /\ r.http = 200 =>
               /\ r.recommended_bowler_id \in open
               /\ Range(r.alternatives) \subseteq open
          /\ open = {} <=> r.http = 400
  /\ call.fn = "_recommend_next_bowler" =>
       LET state == call.args[2]
           id == call.result
       IN id # NoPlayer =>
            /\ id \in Range(Ids(call.args[1]))
            /\ OversBowled(state, id) < 4
            /\ id # call.args[3]

\* both available bowlers have bowled out: the request is rejected
C26_Witness ==
  /\ call.fn = "recommend_bowler"
  /\ Len(call.args[1]) = 2
  /\ OversBowled(call.args[2], "P") = 4 /\ OversBowled(call.args[2], "Q") = 5
  /\ call.result = NoEligibleBowlers

----------------------------------------------------------------------------
(* The scorecard over a whole innings *)

\* innings that have not begun
FreshScenarios ==
  { Scenario(Roster3, InningsState(0, 0, 0, 0, <<"A", "B">>, <<>>), <<>>),
    Scenario(Roster3, InningsState(0, 0, 0, 0, <<"A", "B">>, <<>>), <<2>>),
    Scenario(Roster3, InningsState(0, 0, 0, 0, <<"A", "X">>, <<>>), <<>>) }

InitFresh ==
  \E s \in FreshScenarios : InitWith([c \in Callers |-> IF c = 1 THEN s ELSE Idle])

\* over after over from the start of an innings
SpecFresh == InitFresh /\ [][NextSeq]_vars

\* the sum of a field over the entries of a stats dict
RECURSIVE SumStats(_, _, _)
SumStats(d, keys, field) ==
  IF keys = {} THEN 0
  ELSE LET k == CHOOSE x \in keys : TRUE
       IN d[k][field] + SumStats(d, keys \ {k}, field)

Sum(d, field) == SumStats(d, DOMAIN d, field)

\* the batters' runs in the state the call with locals f works on, through heap hb
BatterRuns(f, hb) ==
  Sum([k \in DOMAIN f.updated_state.batter_stats |->
         hb[f.updated_state.batter_stats[k]]], "runs")

(* C27: from a fresh innings, after any sequence of calls, team runs are the *)
(* batters' runs plus the runs of the wides and no-balls, team wickets are   *)
(* the bowlers' wickets, innings overs are the bowlers' completed overs, and *)
(* each over summary's runs and wickets are the change in team runs and      *)
(* wickets during its call.                                                  *)
C27_ScorecardConservation ==
  /\ [](\A c \in Callers :
          Returned(c) =>
            /\ Got(c).wickets = Sum(Got(c).bowler_stats, "wickets")
            /\ Got(c).overs = Sum(Got(c).bowler_stats, "overs")
            /\ Got(c).runs >= Sum(Got(c).batter_stats, "runs")
            /\ ret[c].over_summary.runs = Got(c).runs - passed_in[c].runs
            /\ ret[c].over_summary.wickets = Got(c).wickets - passed_in[c].wickets)
  /\ [][\A c \in Callers :
          Bowled(c) =>
            LET o == loc'[c].outcome
                extras == IF o.type = "extra" THEN o.runs ELSE 0
            IN loc'[c].updated_state.runs - loc[c].updated_state.runs
                 = BatterRuns(loc'[c], batter_heap') - BatterRuns(loc[c], batter_heap)
                     + extras]_vars

\* two overs from two bowlers, with a wide, a run off the bat and a wicket
C27_Witness ==
  /\ Returned(1) /\ ncalls[1] = 2
  /\ Got(1).overs = 2 /\ DOMAIN Got(1).bowler_stats = {"P", "Q"}
  /\ Got(1).runs = 2 /\ Sum(Got(1).batter_stats, "runs") = 1
  /\ Got(1).wickets = 1


----------------------------------------------------------------------------
(* Balls faced *)

\* the batters' balls faced in the state the call with locals f works on
BatterBalls(f, hb) ==
  Sum([k \in DOMAIN f.updated_state.batter_stats |->
         hb[f.updated_state.batter_stats[k]]], "balls")

(* C28: every legal delivery, the one a batter is dismissed on included,     *)
(* adds exactly one to the batters' balls faced, so the balls faced in the   *)
(* state the first call of a fresh innings returns add up to the legal       *)
(* deliveries that call bowled.                                              *)
C28_BallsFaced ==
  /\ [](\A c \in Callers :
          Returned(c) /\ ncalls[c] = 1 =>
            Sum(Got(c).batter_stats, "balls") = loc[c].ball_number)
  /\ [][\A c \in Callers :
          Bowled(c) /\ IsLegal(loc'[c].outcome) =>
            BatterBalls(loc'[c], batter_heap') = BatterBalls(loc[c], batter_heap) + 1]_vars


----------------------------------------------------------------------------
(* An over taken up part way *)

\* the legal deliveries an innings state stands for
LegalDeliveries(st) == BALLS_PER_OVER * st.overs + st.balls

(* C29: a call made on a state with balls = b, 0 < b <= 5, bowls at most     *)
(* 6 - b legal deliveries, and the state a call returns stands for the legal *)
(* deliveries of the state it was given plus those the call bowled.          *)
C29_PartOver ==
  \A c \in Callers :
    /\ InCall(c) /\ passed_in[c].balls \in 1..(BALLS_PER_OVER - 1) =>
         loc[c].ball_number <= BALLS_PER_OVER - passed_in[c].balls
    /\ Returned(c) =>
         LegalDeliveries(Got(c)) = LegalDeliveries(passed_in[c]) + loc[c].ball_number


----------------------------------------------------------------------------
(* The /simulate/ball endpoint (api/v1/match.py) beside simulate_over *)

\* BallUpdate without the change of ends when the over is complete
BallUpdateNoChangeOfEnds(st, tgt, outcome) ==
  LET legal == ~(outcome.type = "extra" /\ outcome.extra_type \in {"wide", "noball"})
      balls1 == st.balls + (IF legal THEN 1 ELSE 0)
      new_wickets == st.wickets + (IF outcome.type = "wicket" THEN 1 ELSE 0)
      odd == outcome.type = "runs" /\ outcome.runs % 2 = 1
      new_overs == st.overs + (IF balls1 >= 6 THEN 1 ELSE 0)
  IN [runs |-> st.runs + outcome.runs, wickets |-> new_wickets,
      overs |-> new_overs, balls |-> IF balls1 >= 6 THEN 0 ELSE balls1,
      current_batters |->
        IF odd THEN <<st.current_batters[2], st.current_batters[1]>>
        ELSE st.current_batters,
      striker_changed |-> odd,
      innings_complete |->
        \/ outcome.type = "wicket" /\ new_wickets >= 10
        \/ new_overs >= 20
        \/ Truthy(tgt) /\ st.runs + outcome.runs >= tgt[1],
      new_batsman_needed |-> outcome.type = "wicket" /\ new_wickets < 10]

\* lines 68-106 and 121-130: the UpdatedState the ball endpoint works out from
\* the innings state of the request and the outcome of the delivery
BallUpdate(st, tgt, outcome) ==
  LET new_runs == st.runs + outcome.runs
      new_wickets == st.wickets + (IF outcome.type = "wicket" THEN 1 ELSE 0)
      legal == ~(outcome.type = "extra" /\ outcome.extra_type \in {"wide", "noball"})
      balls1 == st.balls + (IF legal THEN 1 ELSE 0)
      odd == outcome.type = "runs" /\ outcome.runs % 2 = 1
      batters1 == IF odd THEN <<st.current_batters[2], st.current_batters[1]>>
                  ELSE st.current_batters
      over_complete == balls1 >= 6
      new_overs == st.overs + (IF over_complete THEN 1 ELSE 0)
  IN [runs |-> new_runs, wickets |-> new_wickets, overs |-> new_overs,
      balls |-> IF over_complete THEN 0 ELSE balls1,
      current_batters |->
        IF over_complete THEN <<batters1[2], batters1[1]>> ELSE batters1,
      striker_changed |-> IF over_complete THEN ~odd ELSE odd,
      innings_complete |->
        \/ outcome.type = "wicket" /\ new_wickets >= 10
        \/ new_overs >= 20
        \/ Truthy(tgt) /\ new_runs >= tgt[1],
      new_batsman_needed |-> outcome.type = "wicket" /\ new_wickets < 10]

\* the innings state of caller c's next ball request: the state the over
\* began from, then the fields of the last UpdatedState
BallState(c) == IF call = NoCall THEN innings_state[c] ELSE call.result

\* one delivery taken by both paths: a pass of simulate_over's loop, and a
\* ball request with the same outcome on the state the ball path has reached
BallByBall(c, max_runs, max_extras) ==
  /\ pc[c] = "loop"
  /\ FindPlayer(batting_team[c], StrikerId(loc[c])) # NoPlayer
  /\ \E outcome \in Outcomes :
       /\ loc[c].updated_state.runs + outcome.runs <= max_runs
       /\ ~IsLegal(outcome) => loc[c].balls - loc[c].ball_number < max_extras
       /\ \E m \in {Deliver(Machine(c), batting_team[c], target[c], outcome)} :
            Land(c, m)
       /\ call' = [fn |-> "simulate_ball", args |-> <<outcome>>,
                   result |-> BallUpdate(BallState(c), target[c], outcome)]
  /\ UNCHANGED <<batting_team, target, innings_state, ncalls, passed_in>>

\* the most runs an innings may reach, and the most wides and no-balls in an over
PathMaxRuns == 4

PathMaxExtras == 1

\* four wickets down for no runs, one in each of the overs 1..4
FourDown == [i \in 1..4 |-> FallOfWicket(Roster11[i], 0, 10 * i + 1)]

\* open innings of a side of eleven at the start of an over
OverStartScenarios ==
  { Scenario(Roster11, InningsState(0, 0, 0, 0, <<"A", "B">>, <<>>), <<>>),
    Scenario(Roster11, InningsState(0, 0, 0, 0, <<"A", "B">>, <<>>), <<3>>),
    Scenario(Roster11, InningsState(0, 4, 5, 0, <<"E", "F">>, FourDown), <<>>),
    Scenario(Roster11, InningsState(0, 9, 19, 0, <<"J", "K">>, NineDown), <<>>) }

InitPaths ==
  \E s \in OverStartScenarios :
    InitWith([c \in Callers |-> IF c = 1 THEN s ELSE Idle])

NextPaths ==
  \/ Request(1, 1)
  \/ BallByBall(1, PathMaxRuns, PathMaxExtras)

SpecPaths == InitPaths /\ [][NextPaths]_vars

\* the slot of the starting pair that the ball path has on strike
BallPathSlot(c) ==
  IF call.result.current_batters = innings_state[c].current_batters THEN 0 ELSE 1

(* C30: from the same open start-of-over state of a side of eleven and the   *)
(* same outcomes, the state simulate_over returns and the last UpdatedState  *)
(* of the ball endpoint have the same runs, wickets, overs and balls, the    *)
(* same slot of the pair on strike and the same innings_complete.            *)
C30_PathsAgree ==
  \A c \in Callers :
    Returned(c) /\ call.fn = "simulate_ball" =>
      /\ Got(c).runs = call.result.runs
      /\ Got(c).wickets = call.result.wickets
      /\ Got(c).overs = call.result.overs
      /\ Got(c).balls = call.result.balls
      /\ loc[c].striker_idx = BallPathSlot(c)
      /\ ret[c].innings_complete = call.result.innings_complete

\* a full over with a wide and a wicket in it: both paths end it with the
\* second slot of the pair on strike
C30_Witness ==
  /\ Returned(1) /\ call.fn = "simulate_ball"
  /\ ret[1].over_summary.balls = 7 /\ Got(1).overs = 1 /\ Got(1).balls = 0
  /\ Got(1).runs = 1 /\ Got(1).wickets = 1
  /\ loc[1].striker_idx = 1 /\ BallPathSlot(1) = 1
  /\ ~ret[1].innings_complete

====
